---- MODULE Spec2Model ----
(***************************************************************************)
(* Model of proto/inject-oauth-scopes.py: the extraction of required_scope *)
(* annotations from proto sources (ProtoScopeExtractor) and their          *)
(* injection into the OpenAPI document (OpenAPIScopesInjector).            *)
(*                                                                         *)
(* Representation.                                                         *)
(*  - A Python str is a sequence of atoms; an atom is a TLA+ string that   *)
(*    stands for an indivisible run of characters ("\n" is the newline).   *)
(*    Concatenation is \o, membership of a substring is contiguous         *)
(*    sub-sequence, str.replace(x, '') drops the atoms equal to x.         *)
(*  - A Python dict whose key set varies is a function whose DOMAIN is the *)
(*    set of keys present ('k' in d  is  k \in DOMAIN d).                  *)
(*  - A dict whose iteration order matters (method_scopes, paths) is a     *)
(*    sequence of entries in insertion order.                              *)
(*  - A proto source is a sequence of lexical tokens [t, v]; the regular   *)
(*    expressions of the extractor are computed over these tokens.         *)
(***************************************************************************)
EXTENDS Integers, Sequences, FiniteSets, TLC

VARIABLES
    schema,         \* the proto files found by rglob, in rglob order
    method_scopes,  \* ProtoScopeExtractor.method_scopes (insertion ordered)
    fi,             \* number of proto files already visited by extract_scopes
    file,           \* the OpenAPI document as persisted on disk
    fstate,         \* condition of that file: ok, missing, malformed, truncated
    start,          \* file and fstate when the current invocation began
    spec,           \* OpenAPIScopesInjector.spec, the in-memory document
    idx,            \* number of path entries already visited by _add_operation_security
    pc,             \* position of main()
    run,            \* number of the current invocation of the script
    hist            \* per completed invocation: document before, after, fact table

vars == <<schema, method_scopes, fi, file, fstate, start, spec, idx, pc, run, hist>>

\* ------------------------------------------------------------------ bounds
MaxMethods == 2
MaxOps == 1
MaxRuns == 2

\* ----------------------------------------------------------- str helpers
NL == "\n"
\* the atom of the grave accent character (U+0060), which delimits inline code
BQ == "GRAVE"

Has(d, k) == k \in DOMAIN d

Put(d, k, v) == [x \in (DOMAIN d) \cup {k} |-> IF x = k THEN v ELSE d[x]]

RECURSIVE Replace(_, _)
Replace(s, a) ==
    IF s = <<>> THEN <<>>
    ELSE IF Head(s) = a THEN Replace(Tail(s), a)
    ELSE <<Head(s)>> \o Replace(Tail(s), a)

IsPrefix(p, s) == Len(p) <= Len(s) /\ SubSeq(s, 1, Len(p)) = p

EndsWith(s, p) == Len(p) <= Len(s) /\ SubSeq(s, Len(s) - Len(p) + 1, Len(s)) = p

Contains(s, p) ==
    \E i \in 0..(Len(s) - Len(p)) : SubSeq(s, i + 1, i + Len(p)) = p

\* sep.join(xs) for a sequence xs of atoms
RECURSIVE Join(_, _)
Join(sep, xs) ==
    IF xs = <<>> THEN <<>>
    ELSE IF Len(xs) = 1 THEN <<xs[1]>>
    ELSE <<xs[1], sep>> \o Join(sep, Tail(xs))

\* s.split('\n')[0]
RECURSIVE FirstLine(_)
FirstLine(s) ==
    IF s = <<>> \/ Head(s) = NL THEN <<>>
    ELSE <<Head(s)>> \o FirstLine(Tail(s))

IsSpace(a) == a \in {NL, " "}

RECURSIVE LStrip(_)
LStrip(s) == IF s # <<>> /\ IsSpace(Head(s)) THEN LStrip(Tail(s)) ELSE s

RECURSIVE RStrip(_)
RStrip(s) ==
    IF s # <<>> /\ IsSpace(s[Len(s)]) THEN RStrip(SubSeq(s, 1, Len(s) - 1)) ELSE s

Strip(s) == RStrip(LStrip(s))

\* str.lower() on the atoms that occur as enum names
Lower(a) ==
    CASE a = "ACCOUNT" -> "account"
      [] a = "ORGANIZATION" -> "organization"
      [] a = "PROJECT" -> "project"
      [] a = "SITE" -> "site"
      [] a = "UNSPECIFIED" -> "unspecified"
      [] a = "READ" -> "read"
      [] a = "WRITE" -> "write"
      [] a = "ADMIN" -> "admin"
      [] OTHER -> a

LowerStr(s) == [i \in 1..Len(s) |-> Lower(s[i])]

\* ------------------------------------------------------ constant tables
RT(x) == <<"RESOURCE_TYPE_", x>>
AL(x) == <<"ACCESS_LEVEL_", x>>

\* a table without entries for the admin level
MappedPairsNoAdmin ==
    {<<RT(r), AL(l)>> : r \in {"ACCOUNT", "ORGANIZATION", "PROJECT", "SITE"},
                        l \in {"READ", "WRITE"}}

\* the keys of SCOPE_MAPPING
MappedPairs ==
    {<<RT(r), AL(l)>> : r \in {"ACCOUNT", "ORGANIZATION", "PROJECT", "SITE"},
                        l \in {"READ", "WRITE", "ADMIN"}}

SCOPE_MAPPING ==
    [p \in MappedPairs |->
        CASE p = <<RT("ACCOUNT"), AL("READ")>> -> <<"read:user", "read:organizations">>
          [] p = <<RT("ACCOUNT"), AL("WRITE")>> -> <<"write:user">>
          [] p = <<RT("ACCOUNT"), AL("ADMIN")>> -> <<"write:user">>
          [] p = <<RT("ORGANIZATION"), AL("READ")>> -> <<"read:organization">>
          [] p = <<RT("ORGANIZATION"), AL("WRITE")>> ->
                <<"write:organization", "read:organization">>
          [] p = <<RT("ORGANIZATION"), AL("ADMIN")>> ->
                <<"delete:organization", "write:organization", "read:organization",
                  "manage_secrets">>
          [] p = <<RT("PROJECT"), AL("READ")>> -> <<"read:project">>
          [] p = <<RT("PROJECT"), AL("WRITE")>> -> <<"write:project", "read:project">>
          [] p = <<RT("PROJECT"), AL("ADMIN")>> ->
                <<"delete:project", "write:project", "read:project", "manage_secrets">>
          [] p = <<RT("SITE"), AL("READ")>> -> <<"read:site">>
          [] p = <<RT("SITE"), AL("WRITE")>> -> <<"write:site", "read:site">>
          [] p = <<RT("SITE"), AL("ADMIN")>> ->
                <<"delete:site", "write:site", "read:site", "manage_secrets">>]


\* a lookup whose default is a catch-all scope instead of the empty list
ScopeMappingGetDefault(resource, level) ==
    IF <<resource, level>> \in DOMAIN SCOPE_MAPPING
    THEN SCOPE_MAPPING[<<resource, level>>]
    ELSE <<"admin:system">>

\* SCOPE_MAPPING.get((resource, level), [])
ScopeMappingGet(resource, level) ==
    IF <<resource, level>> \in DOMAIN SCOPE_MAPPING
    THEN SCOPE_MAPPING[<<resource, level>>]
    ELSE <<>>

SCOPE_DESCRIPTIONS ==
    [ s \in {"read:user", "write:user", "read:organizations", "read:organization",
             "write:organization", "delete:organization", "read:projects",
             "create:projects", "write:projects", "delete:projects", "read:members",
             "write:members", "delete:members", "read:invoices", "read:firewall",
             "write:firewall", "delete:firewall", "read:site", "write:site",
             "delete:site", "read:sites", "write:sites", "delete:sites",
             "promote_sites", "read:project", "write:project", "delete:project",
             "manage_secrets", "admin:system"} |->
        CASE s = "read:user" -> "Read user account information"
          [] s = "write:user" -> "Update user account information"
          [] s = "read:organizations" -> "Read user's organizations"
          [] s = "read:organization" -> "Read organization details"
          [] s = "write:organization" -> "Update organization"
          [] s = "delete:organization" -> "Delete organization"
          [] s = "read:projects" -> "Read organization projects"
          [] s = "create:projects" -> "Create organization projects"
          [] s = "write:projects" -> "Update organization projects"
          [] s = "delete:projects" -> "Delete organization projects"
          [] s = "read:members" -> "Read organization/project/site members"
          [] s = "write:members" -> "Manage organization/project/site members"
          [] s = "delete:members" -> "Remove organization/project/site members"
          [] s = "read:invoices" -> "Read organization invoices"
          [] s = "read:firewall" -> "Read firewall rules"
          [] s = "write:firewall" -> "Update firewall rules"
          [] s = "delete:firewall" -> "Delete firewall rules"
          [] s = "read:site" -> "Read site details"
          [] s = "write:site" -> "Update site configuration"
          [] s = "delete:site" -> "Delete site"
          [] s = "read:sites" -> "Read project sites"
          [] s = "write:sites" -> "Update project sites"
          [] s = "delete:sites" -> "Delete project sites"
          [] s = "promote_sites" -> "Promote sites between environments"
          [] s = "read:project" -> "Read project details"
          [] s = "write:project" -> "Update project"
          [] s = "delete:project" -> "Delete project"
          [] s = "manage_secrets" -> "Read, write, and delete secrets"
          [] OTHER -> "Full system administrative access"]

\* ------------------------------------------------------- proto tokens
\* A proto source is a sequence of tokens [t, v]:
\*   package   `package <v>;`
\*   service   `service <v> {`
\*   rpc       `rpc <v>(Req) returns (Res) {`
\*   rpcdecl   `rpc <v>(Req) returns (Res);`          (no body)
\*   scopeopt  `option (libops.v1.options.required_scope) = {`
\*   otheropt  `option (google.api.http) = {`
\*   resource  `resource: <v>`     level  `level: <v>`
\*   oauth     `oauth_scopes: "<v>"`
\*   field     any other `key: value` text without braces
\*   rbrace    a `}` that is not preceded by a newline and exactly two spaces
\*   rpcend    a newline, exactly two spaces and `}`
\* Tokens are separated by white space.
Tok(t, v) == [t |-> t, v |-> v]
TPackage(n) == Tok("package", n)
TService(n) == Tok("service", <<n>>)
TRpc(n) == Tok("rpc", <<n>>)
TRpcDecl(n) == Tok("rpcdecl", <<n>>)
TScopeOpt == Tok("scopeopt", <<>>)
TOtherOpt == Tok("otheropt", <<>>)
TResource(v) == Tok("resource", v)
TLevel(v) == Tok("level", v)
TOauth(s) == Tok("oauth", <<s>>)
TField == Tok("field", <<>>)
TRBrace == Tok("rbrace", <<>>)
TRpcEnd == Tok("rpcend", <<>>)

\* the characters `}` occur in exactly these tokens
HasRBrace(tok) == tok.t \in {"rbrace", "rpcend"}

\* index of the first token at or after position from that satisfies P, 0 if none
FirstFrom(s, from, P(_)) ==
    LET hits == {i \in from..Len(s) : P(s[i])}
    IN  IF hits = {} THEN 0 ELSE CHOOSE i \in hits : \A j \in hits : i <= j

\* ------------------------------------------ ProtoScopeExtractor
DefaultPackage == <<"libops", ".", "v1">>

\* re.search(r'package\s+([\w.]+)\s*;', content), default "libops.v1"
PackageName(content) ==
    LET IsPkg(tok) == tok.t = "package"
        i == FirstFrom(content, 1, IsPkg)
    IN  IF i = 0 THEN DefaultPackage ELSE content[i].v

\* re.search(r'resource:\s*(RESOURCE_TYPE_\w+)', scope_content): the value of
\* the first resource field that has the RESOURCE_TYPE_ prefix, <<>> if none
EnumMatch(scope_content, kind, prefix) ==
    LET Ok(tok) == tok.t = kind /\ Len(tok.v) >= 2 /\ tok.v[1] = prefix
        i == FirstFrom(scope_content, 1, Ok)
    IN  IF i = 0 THEN <<>> ELSE SubSeq(scope_content[i].v, 1, 2)

\* re.finditer(r'oauth_scopes:\s*"([^"]+)"', scope_content), in order
RECURSIVE OauthScopes(_)
OauthScopes(scope_content) ==
    IF scope_content = <<>> THEN <<>>
    ELSE IF Head(scope_content).t = "oauth"
         THEN Head(scope_content).v \o OauthScopes(Tail(scope_content))
         ELSE OauthScopes(Tail(scope_content))

NoScope == [found |-> FALSE, resource |-> <<>>, level |-> <<>>, oauth_scopes |-> <<>>]

\* _extract_scope_annotation(method_options): the scope pattern matches at the
\* first scopeopt token that is followed, somewhere in method_options, by a `}`;
\* its group is the text up to the first such `}`.
ExtractScopeAnnotation(method_options) ==
    LET IsOpt(tok) == tok.t = "scopeopt"
        a == FirstFrom(method_options, 1, IsOpt)
        b == IF a = 0 THEN 0 ELSE FirstFrom(method_options, a + 1, HasRBrace)
    IN  IF a = 0 \/ b = 0 THEN NoScope
        ELSE LET scope_content == SubSeq(method_options, a + 1, b - 1)
                 resource == EnumMatch(scope_content, "resource", "RESOURCE_TYPE_")
                 level == EnumMatch(scope_content, "level", "ACCESS_LEVEL_")
             IN  IF resource = <<>> THEN NoScope
                 ELSE IF level = <<>> THEN NoScope
                 ELSE [found |-> TRUE, resource |-> resource, level |-> level,
                       oauth_scopes |-> OauthScopes(scope_content)]

\* the end of the rpc pattern: the characters newline, two spaces, `}`
IsRpcEnd(tok) == tok.t = "rpcend"

\* re.finditer(r'rpc\s+(\w+)\s*\([^)]+\)\s+returns\s+\([^)]+\)\s*\{(.*?)\n  \}',
\*             service_content, re.DOTALL): the non-overlapping matches from
\* position from on, each as [name, options]
RECURSIVE RpcMatches(_, _)
RpcMatches(service_content, from) ==
    IF from > Len(service_content) THEN <<>>
    ELSE IF service_content[from].t = "rpc"
         THEN LET q == FirstFrom(service_content, from + 1, IsRpcEnd)
              IN  IF q = 0 THEN RpcMatches(service_content, from + 1)
                  ELSE <<[name |-> service_content[from].v,
                          options |-> SubSeq(service_content, from + 1, q - 1)]>>
                       \o RpcMatches(service_content, q + 1)
         ELSE RpcMatches(service_content, from + 1)

\* [(m.start(), m.group(1)) for m in re.finditer(r'service\s+(\w+)\s*\{', content)]
RECURSIVE ServiceStarts(_, _)
ServiceStarts(content, from) ==
    IF from > Len(content) THEN <<>>
    ELSE IF content[from].t = "service"
         THEN <<[start |-> from, name |-> content[from].v]>>
              \o ServiceStarts(content, from + 1)
         ELSE ServiceStarts(content, from + 1)

\* an assignment that leaves an existing key as it is (setdefault)
DictSetKeepFirst(d, k, v) ==
    IF \E i \in 1..Len(d) : d[i].key = k
    THEN d
    ELSE Append(d, [key |-> k, scope |-> v])

\* an assignment that moves an existing key to the end (del, then set)
DictSetMoveToEnd(d, k, v) ==
    Append(SelectSeq(d, LAMBDA e : e.key # k), [key |-> k, scope |-> v])

\* self.method_scopes[k] = v on an insertion-ordered dict
DictSet(d, k, v) ==
    IF \E i \in 1..Len(d) : d[i].key = k
    THEN [i \in 1..Len(d) |-> IF d[i].key = k THEN [key |-> k, scope |-> v] ELSE d[i]]
    ELSE Append(d, [key |-> k, scope |-> v])

DictHas(d, k) == \E i \in 1..Len(d) : d[i].key = k
DictGet(d, k) == d[CHOOSE i \in 1..Len(d) : d[i].key = k].scope

\* f"{package_name}.{service_name}/{method_name}"
FullMethodName(package_name, service_name, method_name) ==
    package_name \o <<".">> \o service_name \o <<"/">> \o method_name

\* the body of `for method_match in rpc_matches`
RECURSIVE StoreMatches(_, _, _, _)
StoreMatches(d, matches, package_name, service_name) ==
    IF matches = <<>> THEN d
    ELSE LET m == Head(matches)
             scope == ExtractScopeAnnotation(m.options)
             d2 == IF scope.found
                   THEN DictSet(d, FullMethodName(package_name, service_name, m.name),
                                [resource |-> scope.resource, level |-> scope.level,
                                 oauth_scopes |-> scope.oauth_scopes])
                   ELSE d
         IN  StoreMatches(d2, Tail(matches), package_name, service_name)

\* service bodies that all run to the end of the file
RECURSIVE ParseServicesToEof(_, _, _, _)
ParseServicesToEof(d, content, starts, i) ==
    IF i > Len(starts) THEN d
    ELSE LET service_content == SubSeq(content, starts[i].start, Len(content))
             d2 == StoreMatches(d, RpcMatches(service_content, 1),
                                PackageName(content), starts[i].name)
         IN  ParseServicesToEof(d2, content, starts, i + 1)

\* the body of `for i, (start_pos, service_name) in enumerate(service_starts)`
RECURSIVE ParseServices(_, _, _, _)
ParseServices(d, content, starts, i) ==
    IF i > Len(starts) THEN d
    ELSE LET end_pos == IF i + 1 <= Len(starts) THEN starts[i + 1].start - 1
                        ELSE Len(content)
             service_content == SubSeq(content, starts[i].start, end_pos)
             d2 == StoreMatches(d, RpcMatches(service_content, 1),
                                PackageName(content), starts[i].name)
         IN  ParseServices(d2, content, starts, i + 1)

\* _parse_proto_file(proto_file): the method_scopes after parsing content
ParseProtoFile(d, content) ==
    ParseServices(d, content, ServiceStarts(content, 1), 1)

\* ------------------------------------------ OpenAPIScopesInjector
\* a scheme whose scope dictionary leaves out the scopes written without a colon
OAuth2SchemeColonScopes ==
    [type |-> "oauth2",
     description |-> "OAuth 2.0 authentication via Vault OIDC",
     flows |-> [authorizationCode |->
                   [authorizationUrl |-> "/auth/oauth/authorize",
                    tokenUrl |-> "/auth/oauth/token",
                    scopes |-> [s \in (DOMAIN SCOPE_DESCRIPTIONS)
                                        \ {"manage_secrets", "promote_sites"} |->
                                   SCOPE_DESCRIPTIONS[s]]]]]

OAuth2Scheme ==
    [type |-> "oauth2",
     description |-> "OAuth 2.0 authentication via Vault OIDC",
     flows |-> [authorizationCode |->
                   [authorizationUrl |-> "/auth/oauth/authorize",
                    tokenUrl |-> "/auth/oauth/token",
                    scopes |-> [s \in DOMAIN SCOPE_DESCRIPTIONS |-> SCOPE_DESCRIPTIONS[s]]]]]

ApiKeyScheme ==
    [type |-> "http",
     scheme |-> "bearer",
     bearerFormat |-> "API Key",
     description |-> "API key authentication (prefix: libops_)"]


\* a registration that replaces the securitySchemes section by the two schemes
AddSecuritySchemeFresh(doc) ==
    LET d1 == IF Has(doc, "components") THEN doc
              ELSE Put(doc, "components", <<>>)
    IN  Put(d1, "components",
            Put(d1.components, "securitySchemes",
                [n \in {"oauth2", "apiKey"} |->
                    IF n = "oauth2" THEN OAuth2Scheme ELSE ApiKeyScheme]))

\* registration that keeps an oauth2 / apiKey entry that is already present
AddSecuritySchemeKeep(doc) ==
    LET d1 == IF Has(doc, "components") THEN doc
              ELSE Put(doc, "components", <<>>)
        c1 == IF Has(d1.components, "securitySchemes") THEN d1.components
              ELSE Put(d1.components, "securitySchemes", <<>>)
        s1 == IF Has(c1.securitySchemes, "oauth2") THEN c1.securitySchemes
              ELSE Put(c1.securitySchemes, "oauth2", OAuth2Scheme)
        s2 == IF Has(s1, "apiKey") THEN s1 ELSE Put(s1, "apiKey", ApiKeyScheme)
    IN  Put(d1, "components", Put(c1, "securitySchemes", s2))

\* _add_security_scheme(): the document after registration
AddSecurityScheme(doc) ==
    LET d1 == IF Has(doc, "components") THEN doc
              ELSE Put(doc, "components", <<>>)
        c1 == IF Has(d1.components, "securitySchemes") THEN d1.components
              ELSE Put(d1.components, "securitySchemes", <<>>)
        s1 == Put(c1.securitySchemes, "oauth2", OAuth2Scheme)
        s2 == Put(s1, "apiKey", ApiKeyScheme)
    IN  Put(d1, "components", Put(c1, "securitySchemes", s2))

\* a verb list that also holds head
HttpVerbsWithHead == {"get", "post", "put", "patch", "delete", "head"}

\* ['get', 'post', 'put', 'patch', 'delete']
HttpVerbs == {"get", "post", "put", "patch", "delete"}


\* the match without the truthiness guard on operation_id
IdMatchesUnguarded(operation_id, method_name) ==
    Contains(Replace(method_name, "/"), Replace(operation_id, "_"))

\* operation_id.replace('_', '') in method_name.replace('/', ''), guarded by
\* the truthiness of operation_id
IdMatches(operation_id, method_name) ==
    /\ operation_id # <<>>
    /\ Contains(Replace(method_name, "/"), Replace(operation_id, "_"))

\* the loop without its break: the last matching entry stays in proto_scope
FindProtoScopeLast(operation_id, d) ==
    LET hits == {i \in 1..Len(d) : IdMatches(operation_id, d[i].key)}
    IN  IF hits = {} THEN 0 ELSE CHOOSE i \in hits : \A j \in hits : i >= j

\* the loop over self.method_scopes.items(): index of the first matching
\* entry, 0 when proto_scope stays None
FindProtoScope(operation_id, d) ==
    LET hits == {i \in 1..Len(d) : IdMatches(operation_id, d[i].key)}
    IN  IF hits = {} THEN 0 ELSE CHOOSE i \in hits : \A j \in hits : i <= j


\* the mapping's list added to the proto's list instead of replacing it
EffectiveScopesMerged(proto_scope) ==
    proto_scope.oauth_scopes
    \o ScopeMappingGet(proto_scope.resource, proto_scope.level)

\* oauth_scopes: the proto's list if non-empty, else the mapping's
EffectiveScopes(proto_scope) ==
    IF proto_scope.oauth_scopes # <<>> THEN proto_scope.oauth_scopes
    ELSE ScopeMappingGet(proto_scope.resource, proto_scope.level)

\* str.title() on the lower-cased resource names
Title(a) ==
    CASE a = "account" -> "Account"
      [] a = "organization" -> "Organization"
      [] a = "project" -> "Project"
      [] a = "site" -> "Site"
      [] a = "unspecified" -> "Unspecified"
      [] OTHER -> a

\* a hierarchy that lists the resource's own type only
ResourceHierarchyOwn(resource_str) ==
    [i \in 1..Len(resource_str) |-> Title(resource_str[i])]

\* resource_hierarchy.get(resource_str, [resource_str.title()])
ResourceHierarchy(resource_str) ==
    CASE resource_str = <<"account">> -> <<"Account">>
      [] resource_str = <<"organization">> -> <<"Organization">>
      [] resource_str = <<"project">> -> <<"Organization", "Project">>
      [] resource_str = <<"site">> -> <<"Organization", "Project", "Site">>
      [] OTHER -> [i \in 1..Len(resource_str) |-> Title(resource_str[i])]

\* the rows "| {res} | BQ{scope}BQ |\n" for one res
RECURSIVE ScopeRows(_, _)
ScopeRows(res, oauth_scopes) ==
    IF oauth_scopes = <<>> THEN <<>>
    ELSE <<"| ", res, " | ", BQ, Head(oauth_scopes), BQ, " |", NL>>
         \o ScopeRows(res, Tail(oauth_scopes))

RECURSIVE HierarchyRows(_, _)
HierarchyRows(resources, oauth_scopes) ==
    IF resources = <<>> THEN <<>>
    ELSE ScopeRows(Head(resources), oauth_scopes)
         \o HierarchyRows(Tail(resources), oauth_scopes)

\* the enumeration name lower-cased with its prefix kept
ResourceStrPrefixed(resource) == LowerStr(resource)

\* resource.replace('RESOURCE_TYPE_', '').lower()
ResourceStr(resource) == LowerStr(Replace(resource, "RESOURCE_TYPE_"))
\* level.replace('ACCESS_LEVEL_', '').lower()
LevelStr(level) == LowerStr(Replace(level, "ACCESS_LEVEL_"))

ScopeInfo(resource, oauth_scopes) ==
    <<NL, NL, "### Authorization", NL, NL,
      "An API key or OAuth token must have at least one of the following scopes in order to use this API endpoint:",
      NL, NL, "**API Key Scopes**: ", BQ>>
    \o Join(", ", oauth_scopes)
    \o <<BQ, NL, NL, "**OAuth Scopes**", NL, NL,
         "| Resource | Scope |", NL, "|----------|-------|", NL>>
    \o HierarchyRows(ResourceHierarchy(ResourceStr(resource)), oauth_scopes)

\* f"[Requires: {scope_list_compact}]"
Requires(oauth_scopes) == <<"[Requires: ">> \o Join(", ", oauth_scopes) \o <<"]">>

\* the summary assignment of _add_operation_scope
WithSummary(operation, oauth_scopes) ==
    LET base_desc == IF Has(operation, "description")
                     THEN FirstLine(operation.description) ELSE <<>>
    IN  IF base_desc # <<>>
        THEN Put(operation, "summary", base_desc \o <<" ">> \o Requires(oauth_scopes))
        ELSE IF ~Has(operation, "summary")
        THEN Put(operation, "summary", Requires(oauth_scopes))
        ELSE operation

\* the description assignment of _add_operation_scope
WithDescription(operation, scope_info) ==
    IF Has(operation, "description")
    THEN Put(operation, "description", operation.description \o scope_info)
    ELSE Put(operation, "description", Strip(scope_info))


\* one requirement object holding both schemes (both required together)
SecurityForBoth(oauth_scopes) == <<[oauth2 |-> oauth_scopes, apiKey |-> <<>>]>>

\* the API key alternative listed first, with the scopes attached to it
SecurityForKeyFirst(oauth_scopes) == <<[apiKey |-> <<>>], [oauth2 |-> <<>>]>>

SecurityFor(oauth_scopes) == <<[oauth2 |-> oauth_scopes], [apiKey |-> <<>>]>>

\* the fields injection adds to an operation besides summary and description
InjectedFields == {"security", "x-scopes", "x-auth-type", "x-min-access-level"}

\* an injection that clears what an earlier run injected when the operation
\* resolves to no fact or to a fact without scopes
AddOperationScopeClearing(operation, d) ==
    LET operation_id == IF Has(operation, "operationId") THEN operation.operationId
                        ELSE <<>>
        m == FindProtoScope(operation_id, d)
        cleared == [x \in (DOMAIN operation) \ InjectedFields |-> operation[x]]
    IN  IF m = 0 THEN cleared
        ELSE
        LET proto_scope == d[m].scope
            oauth_scopes == EffectiveScopes(proto_scope)
        IN  IF oauth_scopes = <<>> THEN cleared
            ELSE
            LET o1 == Put(operation, "security", SecurityFor(oauth_scopes))
                o2 == WithSummary(o1, oauth_scopes)
                o3 == WithDescription(o2, ScopeInfo(proto_scope.resource, oauth_scopes))
                o4 == Put(o3, "x-scopes", oauth_scopes)
                o5 == Put(o4, "x-auth-type", <<"oauth2 or apiKey">>)
            IN  Put(o5, "x-min-access-level",
                    ResourceStr(proto_scope.resource) \o <<":">>
                    \o LevelStr(proto_scope.level))

\* an injection that writes x-scopes only when the operation has none yet
AddOperationScopeKeepScopes(operation, d) ==
    LET operation_id == IF Has(operation, "operationId") THEN operation.operationId
                        ELSE <<>>
        m == FindProtoScope(operation_id, d)
    IN  IF m = 0 THEN operation
        ELSE
        LET proto_scope == d[m].scope
            oauth_scopes == EffectiveScopes(proto_scope)
        IN  IF oauth_scopes = <<>> THEN operation
            ELSE
            LET o1 == Put(operation, "security", SecurityFor(oauth_scopes))
                o2 == WithSummary(o1, oauth_scopes)
                o3 == WithDescription(o2, ScopeInfo(proto_scope.resource, oauth_scopes))
                o4 == IF Has(o3, "x-scopes") THEN o3
                      ELSE Put(o3, "x-scopes", oauth_scopes)
                o5 == Put(o4, "x-auth-type", <<"oauth2 or apiKey">>)
            IN  Put(o5, "x-min-access-level",
                    ResourceStr(proto_scope.resource) \o <<":">>
                    \o LevelStr(proto_scope.level))

\* _add_operation_scope(operation, path, http_method): the operation afterwards
AddOperationScope(operation, d) ==
    LET operation_id == IF Has(operation, "operationId") THEN operation.operationId
                        ELSE <<>>
        m == FindProtoScope(operation_id, d)
    IN  IF m = 0 THEN operation
        ELSE
        LET proto_scope == d[m].scope
            oauth_scopes == EffectiveScopes(proto_scope)
        IN  IF oauth_scopes = <<>> THEN operation
            ELSE
            LET o1 == Put(operation, "security", SecurityFor(oauth_scopes))
                o2 == WithSummary(o1, oauth_scopes)
                o3 == WithDescription(o2, ScopeInfo(proto_scope.resource, oauth_scopes))
                o4 == Put(o3, "x-scopes", oauth_scopes)
                o5 == Put(o4, "x-auth-type", <<"oauth2 or apiKey">>)
            IN  Put(o5, "x-min-access-level",
                    ResourceStr(proto_scope.resource) \o <<":">>
                    \o LevelStr(proto_scope.level))

\* ------------------------------------------------------------ inputs
\* the text between the braces of a method; each ends the option with "};"
Bodies ==
    { <<>>,
      <<TScopeOpt, TResource(RT("ORGANIZATION")), TLevel(AL("READ")),
        TOauth("read:members"), TRBrace>>,
      <<TScopeOpt, TOauth("write:site"), TLevel(AL("ADMIN")), TOauth("read:site"),
        TResource(RT("SITE")), TRBrace>>,
      <<TScopeOpt, TResource(RT("PROJECT")), TLevel(AL("WRITE")), TRBrace>>,
      <<TOtherOpt, TField, TRBrace,
        TScopeOpt, TResource(RT("ACCOUNT")), TField, TLevel(AL("READ")), TRBrace>>,
      <<TScopeOpt, TLevel(AL("READ")), TOauth("read:members"), TRBrace>>,
      <<TScopeOpt, TResource(RT("SITE")), TRBrace>>,
      <<TScopeOpt, TResource(<<"ORGANIZATION">>), TLevel(AL("READ")), TRBrace>> }

MethodNames == {"ListMembers", "GetOrg"}

\* a method declaration: its closing brace on a line of its own after two
\* spaces (TRpcEnd), or anywhere else (TRBrace), or no body at all
MethodDecls ==
    {<<TRpc(n)>> \o b \o <<TRpcEnd>> : n \in MethodNames, b \in Bodies}
    \cup {<<TRpc(n)>> \o b \o <<TRBrace>> : n \in MethodNames, b \in Bodies}
    \cup {<<TRpcDecl(n)>> : n \in MethodNames}

\* the declarations that follow the first two of a service
LaterDecls ==
    {<<TRpc(n)>> \o b \o <<TRpcEnd>> :
        n \in MethodNames,
        b \in {<<>>, <<TScopeOpt, TResource(RT("ORGANIZATION")), TLevel(AL("READ")),
                       TOauth("read:members"), TRBrace>>}}
    \cup {<<TRpc(n), TRBrace>> : n \in MethodNames}

RECURSIVE MethodLists(_)
MethodLists(n) ==
    IF n = 0 THEN {<<>>}
    ELSE LET shorter == MethodLists(n - 1)
         IN  shorter
             \cup UNION {{ms \o m :
                             m \in IF ms \in {<<>>} \cup MethodDecls
                                   THEN MethodDecls ELSE LaterDecls} :
                         ms \in shorter}

ServiceText(name, methods) == <<TService(name)>> \o methods \o <<TRBrace>>

ProtoFile(options_path, content) == [options_path |-> options_path, content |-> content]

\* the proto trees of the extractor specification: one file with one service,
\* possibly next to an option definition file
OptionsFile ==
    ProtoFile(TRUE, <<TService("OrgService"), TRpc("GetOrg"), TScopeOpt,
                      TResource(RT("SITE")), TLevel(AL("READ")), TRBrace, TRpcEnd,
                      TRBrace>>)

ExtractorSchemas ==
    {<<ProtoFile(FALSE, pkg \o ServiceText("OrgService", ms))>> :
        pkg \in {<<>>, <<TPackage(<<"acme", ".", "v2">>)>>},
        ms \in MethodLists(MaxMethods)}
    \cup {<<OptionsFile, ProtoFile(FALSE, ServiceText("OrgService", ms))>> :
            ms \in MethodLists(1)}
    \cup {<<ProtoFile(FALSE, ServiceText("OrgService", m1)),
             ProtoFile(FALSE, ServiceText("OrgService", m2))>> :
            m1 \in MethodLists(1), m2 \in MethodLists(1)}
    \cup {<<ProtoFile(FALSE, pkg \o ServiceText("OrgService", m1)
                                 \o ServiceText("ProjectService", m2))>> :
            pkg \in {<<>>, <<TPackage(<<"acme", ".", "v2">>)>>},
            m1 \in MethodLists(1), m2 \in MethodLists(1)}

StdMethod(n, b) == <<TRpc(n)>> \o b \o <<TRpcEnd>>

Annot(resource, level, scopes) ==
    <<TScopeOpt, TResource(resource), TLevel(level)>>
    \o [i \in 1..Len(scopes) |-> TOauth(scopes[i])]
    \o <<TRBrace>>

LibopsPkg == <<TPackage(<<"libops", ".", "v1">>)>>

\* the proto trees of the pipeline specification
PipelineSchemas ==
    { <<>>,
      <<ProtoFile(FALSE, LibopsPkg \o ServiceText("OrgService",
            StdMethod("ListMembers",
                Annot(RT("ORGANIZATION"), AL("READ"), <<"read:members">>))))>>,
      <<ProtoFile(FALSE, LibopsPkg \o ServiceText("OrgService",
            StdMethod("ListMembers", Annot(RT("ORGANIZATION"), AL("READ"), <<>>))))>>,
      <<ProtoFile(FALSE, ServiceText("OrgService",
            StdMethod("ListMembers", Annot(RT("UNSPECIFIED"), AL("READ"), <<>>)))),
        ProtoFile(TRUE, ServiceText("OrgService",
            StdMethod("ListMembers", Annot(RT("SITE"), AL("READ"), <<>>))))>>,
      <<ProtoFile(FALSE, LibopsPkg
            \o ServiceText("OrgService",
                StdMethod("GetOrg", <<>>)
                \o StdMethod("ListMembers", Annot(RT("SITE"), AL("ADMIN"), <<>>)))
            \o ServiceText("ProjectService",
                StdMethod("ListMembers",
                    Annot(RT("PROJECT"), AL("WRITE"),
                          <<"write:members", "read:members">>))))>>,
      <<ProtoFile(FALSE, LibopsPkg
            \o <<Tok("service", <<"Site", "_", "Service">>)>>
            \o StdMethod("ListMembers", Annot(RT("ACCOUNT"), AL("READ"), <<>>))
            \o <<TRBrace>>)>>,
      <<ProtoFile(FALSE, LibopsPkg
            \o ServiceText("OrgService",
                StdMethod("ListMembers",
                    Annot(RT("ORGANIZATION"), AL("READ"), <<"read:members">>)))
            \o ServiceText("ProjectService",
                StdMethod("ListMembers", Annot(RT("PROJECT"), AL("WRITE"), <<>>)))),
        ProtoFile(FALSE, LibopsPkg
            \o ServiceText("OrgService",
                StdMethod("ListMembers", Annot(RT("SITE"), AL("ADMIN"), <<>>))))>> }

\* ---- OpenAPI documents
OperationIds ==
    { <<"OrgService", "_", "ListMembers">>, <<"ListMembers">>, <<"Health", "_", "Check">> }

\* summary / description / security of the operations of the input documents
OperationTexts ==
    { [tags |-> <<"members">>],
      [tags |-> <<"members">>, summary |-> <<"List members">>,
       security |-> <<[basicAuth |-> <<>>]>>],
      [tags |-> <<"members">>, description |-> <<"Lists the members.">>],
      [tags |-> <<"members">>, summary |-> <<"List members">>,
       description |-> <<"Lists the members.", NL, "Paged.">>],
      [tags |-> <<"members">>, summary |-> <<"List members">>, description |-> <<>>,
       security |-> <<[basicAuth |-> <<>>]>>] }

Operations ==
    {Put(t, "operationId", id) : t \in OperationTexts, id \in OperationIds}
    \cup {[tags |-> <<"members">>], [tags |-> <<"members">>, operationId |-> <<>>]}

PathEntry(path, method, operation) ==
    [path |-> path, method |-> method, operation |-> operation]

PathEntries ==
    {PathEntry("/v1/members", "get", o) : o \in Operations}
    \cup {PathEntry("/v1/members", "head",
                    [tags |-> <<"members">>,
                     operationId |-> <<"OrgService", "_", "ListMembers">>]),
          PathEntry("/v1/members", "get",
                    [tags |-> <<"members">>, summary |-> <<"List members">>,
                     operationId |->
                        <<"Site", "_", "Service", "_", "ListMembers">>]),
          PathEntry("/v1/members", "get",
                    [tags |-> <<"members">>,
                     operationId |-> <<"ProjectService", "_", "ListMembers">>]),
          PathEntry("/v1/members", "delete",
                    [tags |-> <<"members">>,
                     operationId |-> <<"OrgService", "_", "ListMembers">>])}

\* the entries that follow the first one in a document with several operations
FollowingEntries ==
    {e \in PathEntries :
        \/ e.method # "get"
        \/ /\ Has(e.operation, "operationId")
           /\ e.operation.operationId = <<"ProjectService", "_", "ListMembers">>}

RECURSIVE PathLists(_)
PathLists(n) ==
    IF n = 0 THEN {<<>>}
    ELSE LET shorter == PathLists(n - 1)
         IN  shorter
             \cup UNION {{ps \o <<e>> :
                             e \in IF ps = <<>> THEN PathEntries
                                   ELSE FollowingEntries} : ps \in shorter}

BasicScheme == [type |-> "http", scheme |-> "basic"]

ComponentsVariants ==
    { [schemas |-> <<"Member">>],
      [schemas |-> <<"Member">>, securitySchemes |-> [basicAuth |-> BasicScheme]],
      [securitySchemes |->
          [basicAuth |-> BasicScheme, oauth2 |-> [type |-> "oauth2"],
           apiKey |-> [type |-> "apiKey", name |-> "X-Key"]]] }

Info == [title |-> "LibOps API"]

\* the path lists of the documents that have a components section
ComponentsPathLists ==
    {<<>>,
     <<PathEntry("/v1/members", "get",
                 [tags |-> <<"members">>,
                  operationId |-> <<"OrgService", "_", "ListMembers">>])>>}

Documents ==
    {[info |-> Info, paths |-> ps] : ps \in PathLists(MaxOps)}
    \cup {[info |-> Info, paths |-> ps, components |-> c] :
            ps \in ComponentsPathLists, c \in ComponentsVariants}
    \cup {[info |-> Info]}

\* ------------------------------------------------------------ actions
\* the conditions of the OpenAPI file on disk; file is its document when the
\* condition is "ok" and the empty document otherwise
NoDocument == <<>>

Snapshot == [fstate |-> fstate, file |-> file]

InitFile ==
    \/ fstate = "ok" /\ file \in Documents
    \/ fstate \in {"missing", "malformed"} /\ file = NoDocument

Init ==
    /\ schema \in PipelineSchemas
    /\ InitFile
    /\ start = Snapshot
    /\ method_scopes = <<>>
    /\ fi = 0
    /\ spec = [info |-> Info]
    /\ idx = 0
    /\ pc = "start"
    /\ run = 1
    /\ hist = <<>>

\* main(): the OpenAPI file exists; ProtoScopeExtractor(proto_dir)
MainStart ==
    /\ pc = "start"
    /\ fstate # "missing"
    /\ pc' = "extract"
    /\ method_scopes' = <<>>
    /\ fi' = 0
    /\ UNCHANGED <<schema, file, fstate, start, spec, idx, run, hist>>

\* main(): not openapi_file.exists(): message on stderr, sys.exit(1)
MainMissing ==
    /\ pc = "start"
    /\ fstate = "missing"
    /\ pc' = "failed"
    /\ UNCHANGED <<schema, method_scopes, fi, file, fstate, start, spec, idx, run, hist>>

\* extract_scopes(): a file whose path contains 'options' is skipped
SkipOptionsFile ==
    /\ pc = "extract"
    /\ fi < Len(schema)
    /\ schema[fi + 1].options_path
    /\ fi' = fi + 1
    /\ UNCHANGED <<schema, method_scopes, file, fstate, start, spec, idx, pc, run, hist>>

\* extract_scopes(): self._parse_proto_file(proto_file)
ParseFile ==
    /\ pc = "extract"
    /\ fi < Len(schema)
    /\ ~schema[fi + 1].options_path
    /\ method_scopes' = ParseProtoFile(method_scopes, schema[fi + 1].content)
    /\ fi' = fi + 1
    /\ UNCHANGED <<schema, file, fstate, start, spec, idx, pc, run, hist>>

\* _parse_proto_file(): open() or read() of the proto file raises; the
\* exception reaches the handler of __main__: traceback, sys.exit(1)
ReadFails ==
    /\ pc = "extract"
    /\ fi < Len(schema)
    /\ ~schema[fi + 1].options_path
    /\ pc' = "failed"
    /\ UNCHANGED <<schema, method_scopes, fi, file, fstate, start, spec, idx, run, hist>>

\* extract_scopes(): return self.method_scopes
ExtractReturn ==
    /\ pc = "extract"
    /\ fi = Len(schema)
    /\ pc' = "load"
    /\ UNCHANGED <<schema, method_scopes, fi, file, fstate, start, spec, idx, run, hist>>

\* a load that takes a file that holds no mapping for an empty document
LoadLenient ==
    /\ pc = "load"
    /\ spec' = (IF fstate = "ok" THEN file ELSE NoDocument)
    /\ pc' = "schemes"
    /\ UNCHANGED <<schema, method_scopes, fi, file, fstate, start, idx, run, hist>>

\* inject_scopes(): self.spec = yaml.safe_load(f)
Load ==
    /\ pc = "load"
    /\ fstate = "ok"
    /\ spec' = file
    /\ pc' = "schemes"
    /\ UNCHANGED <<schema, method_scopes, fi, file, fstate, start, idx, run, hist>>

\* inject_scopes(): yaml.safe_load raises, or returns no mapping and
\* _add_security_scheme raises on it: traceback, sys.exit(1)
LoadFails ==
    /\ pc = "load"
    /\ fstate # "ok"
    /\ pc' = "failed"
    /\ UNCHANGED <<schema, method_scopes, fi, file, fstate, start, spec, idx, run, hist>>

\* inject_scopes(): self._add_security_scheme()
RegisterSchemes ==
    /\ pc = "schemes"
    /\ spec' = AddSecurityScheme(spec)
    /\ idx' = 0
    /\ pc' = "ops"
    /\ UNCHANGED <<schema, method_scopes, fi, file, fstate, start, run, hist>>

\* _add_operation_security(): 'paths' not in self.spec
NoPaths ==
    /\ pc = "ops"
    /\ ~Has(spec, "paths")
    /\ pc' = "write"
    /\ UNCHANGED <<schema, method_scopes, fi, file, fstate, start, spec, idx, run, hist>>

\* _add_operation_security(): one iteration whose key is an HTTP verb
InjectOperation ==
    /\ pc = "ops"
    /\ Has(spec, "paths")
    /\ idx < Len(spec.paths)
    /\ spec.paths[idx + 1].method \in HttpVerbs
    /\ spec' = [spec EXCEPT !.paths[idx + 1].operation =
                    AddOperationScope(@, method_scopes)]
    /\ idx' = idx + 1
    /\ UNCHANGED <<schema, method_scopes, fi, file, fstate, start, pc, run, hist>>

\* _add_operation_security(): one iteration whose key is not an HTTP verb
SkipKey ==
    /\ pc = "ops"
    /\ Has(spec, "paths")
    /\ idx < Len(spec.paths)
    /\ spec.paths[idx + 1].method \notin HttpVerbs
    /\ idx' = idx + 1
    /\ UNCHANGED <<schema, method_scopes, fi, file, fstate, start, spec, pc, run, hist>>

\* _add_operation_security(): the loops are exhausted
OperationsDone ==
    /\ pc = "ops"
    /\ Has(spec, "paths")
    /\ idx = Len(spec.paths)
    /\ pc' = "write"
    /\ UNCHANGED <<schema, method_scopes, fi, file, fstate, start, spec, idx, run, hist>>

\* inject_scopes(): open(self.openapi_file, 'w') raises (no permission):
\* nothing is written; traceback, sys.exit(1)
OpenFails ==
    /\ pc = "write"
    /\ pc' = "failed"
    /\ UNCHANGED <<schema, method_scopes, fi, file, fstate, start, spec, idx, run, hist>>

\* inject_scopes(): open(self.openapi_file, 'w') truncates the file
OpenForWrite ==
    /\ pc = "write"
    /\ fstate' = "truncated"
    /\ file' = NoDocument
    /\ pc' = "writing"
    /\ UNCHANGED <<schema, method_scopes, fi, start, spec, idx, run, hist>>

\* inject_scopes(): yaml.dump(self.spec, f, ...) completes
Write ==
    /\ pc = "writing"
    /\ file' = spec
    /\ fstate' = "ok"
    /\ hist' = Append(hist, [before |-> start.file, after |-> spec,
                             table |-> method_scopes])
    /\ pc' = "done"
    /\ UNCHANGED <<schema, method_scopes, fi, start, spec, idx, run>>

\* inject_scopes(): yaml.dump or the flush on close raises (disk full, I/O
\* error): the file keeps what was written so far; traceback, sys.exit(1)
WriteFails ==
    /\ pc = "writing"
    /\ pc' = "failed"
    /\ UNCHANGED <<schema, method_scopes, fi, file, fstate, start, spec, idx, run, hist>>

\* the script is invoked again on the file it wrote
Rerun ==
    /\ pc = "done"
    /\ run < MaxRuns
    /\ run' = run + 1
    /\ start' = Snapshot
    /\ pc' = "start"
    /\ UNCHANGED <<schema, method_scopes, fi, file, fstate, spec, idx, hist>>

Extraction ==
    \/ SkipOptionsFile
    \/ ParseFile
    \/ ExtractReturn

Injection ==
    \/ Load
    \/ RegisterSchemes
    \/ NoPaths
    \/ InjectOperation
    \/ SkipKey
    \/ OperationsDone
    \/ OpenForWrite
    \/ Write

Failure ==
    \/ MainMissing
    \/ ReadFails
    \/ LoadFails
    \/ OpenFails
    \/ WriteFails

Next ==
    \/ MainStart
    \/ Extraction
    \/ Injection
    \/ Failure
    \/ Rerun

Spec == Init /\ [][Next]_vars

\* ---- the extractor on its own: ProtoScopeExtractor(dir).extract_scopes()
InitX ==
    /\ schema \in ExtractorSchemas
    /\ file = [info |-> Info]
    /\ fstate = "ok"
    /\ start = Snapshot
    /\ method_scopes = <<>>
    /\ fi = 0
    /\ spec = [info |-> Info]
    /\ idx = 0
    /\ pc = "extract"
    /\ run = 1
    /\ hist = <<>>

NextX == Extraction

SpecX == InitX /\ [][NextX]_vars

\* ---- invocations between which the proto tree is edited
\* documents with at most one operation
EditedRunEntries ==
    {PathEntry("/v1/members", "get", Put(t, "operationId", id)) :
        t \in {[tags |-> <<"members">>],
               [tags |-> <<"members">>, summary |-> <<"List members">>,
                description |-> <<"Lists the members.", NL, "Paged.">>]},
        id \in {<<"OrgService", "_", "ListMembers">>, <<"ListMembers">>}}
    \cup {PathEntry("/v1/members", "get",
                    [tags |-> <<"members">>,
                     operationId |-> <<"Health", "_", "Check">>]),
          PathEntry("/v1/members", "head",
                    [tags |-> <<"members">>,
                     operationId |-> <<"OrgService", "_", "ListMembers">>])}

EditedRunDocuments ==
    {[info |-> Info, paths |-> <<e>>] : e \in EditedRunEntries}
    \cup {[info |-> Info]}

InitR ==
    /\ schema \in PipelineSchemas
    /\ \/ fstate = "ok" /\ file \in EditedRunDocuments
       \/ fstate \in {"missing", "malformed"} /\ file = NoDocument
    /\ start = Snapshot
    /\ method_scopes = <<>>
    /\ fi = 0
    /\ spec = [info |-> Info]
    /\ idx = 0
    /\ pc = "start"
    /\ run = 1
    /\ hist = <<>>

\* the script is invoked again after the proto tree was edited
RerunEdited ==
    /\ pc = "done"
    /\ run < MaxRuns
    /\ run' = run + 1
    /\ start' = Snapshot
    /\ schema' \in PipelineSchemas
    /\ pc' = "start"
    /\ UNCHANGED <<method_scopes, fi, file, fstate, spec, idx, hist>>

NextR ==
    \/ MainStart
    \/ Extraction
    \/ Injection
    \/ Failure
    \/ RerunEdited

SpecR == InitR /\ [][NextR]_vars

\* ============================================================ properties
\* What the properties speak about: the completed invocations (hist), the
\* operations under an HTTP verb of the document an invocation read, and
\* the fact the Correlator resolves an operation to.
Runs == 1..Len(hist)

VerbOps(h) ==
    IF Has(h.before, "paths")
    THEN {i \in 1..Len(h.before.paths) : h.before.paths[i].method \in HttpVerbs}
    ELSE {}

Before(h, i) == h.before.paths[i].operation
After(h, i) == h.after.paths[i].operation

OpId(op) == IF "operationId" \in DOMAIN op THEN op.operationId ELSE <<>>

\* the entries of the table whose key, without "/", contains the identifier
\* without "_"; an absent or empty identifier resolves to nothing
ResolvingEntries(op, table) ==
    {k \in 1..Len(table) :
        /\ OpId(op) # <<>>
        /\ Contains(Replace(table[k].key, "/"), Replace(OpId(op), "_"))}

Resolved(op, table) == ResolvingEntries(op, table) # {}

FactOf(op, table) ==
    table[CHOOSE k \in ResolvingEntries(op, table) :
            \A j \in ResolvingEntries(op, table) : k <= j].scope

MappedScopes(fact) ==
    IF <<fact.resource, fact.level>> \in DOMAIN SCOPE_MAPPING
    THEN SCOPE_MAPPING[<<fact.resource, fact.level>>]
    ELSE <<>>

ExpectedScopes(fact) ==
    IF fact.oauth_scopes # <<>> THEN fact.oauth_scopes ELSE MappedScopes(fact)

\* the operation was resolved to a fact with a non-empty effective scope list
Injected(h, i) ==
    /\ Resolved(Before(h, i), h.table)
    /\ ExpectedScopes(FactOf(Before(h, i), h.table)) # <<>>

\* ---- C1
E2ESchema ==
    <<ProtoFile(FALSE, LibopsPkg \o ServiceText("OrgService",
        StdMethod("ListMembers",
            Annot(RT("ORGANIZATION"), AL("READ"), <<"read:members">>))))>>

E2EOperationId == <<"OrgService", "_", "ListMembers">>

\* C1: with the schema of the end-to-end scenario (OrgService.ListMembers,
\* ORGANIZATION / READ / "read:members"), every operation OrgService_ListMembers
\* has after injection security [{oauth2: [read:members]}, {apiKey: []}],
\* x-scopes [read:members] and a summary ending in "[Requires: read:members]",
\* whatever its summary and description were before.
C1_EndToEndExplicit ==
    \A r \in Runs : \A i \in VerbOps(hist[r]) :
        (schema = E2ESchema /\ OpId(Before(hist[r], i)) = E2EOperationId) =>
            LET o == After(hist[r], i)
            IN  /\ Has(o, "security")
                /\ o.security = <<[oauth2 |-> <<"read:members">>], [apiKey |-> <<>>]>>
                /\ Has(o, "x-scopes")
                /\ o["x-scopes"] = <<"read:members">>
                /\ Has(o, "summary")
                /\ EndsWith(o.summary, <<"[Requires: ", "read:members", "]">>)

\* ---- C2
\* C2: a correlated operation whose fact has no explicit oauth_scopes gets, in
\* the oauth2 alternative of security and in x-scopes, exactly the Scope
\* Mapping Table list of the fact's pair ((ORGANIZATION, READ) gives
\* [read:organization]); a fact with explicit oauth_scopes gets exactly those.
C2_FallbackScopes ==
    \A r \in Runs : \A i \in VerbOps(hist[r]) :
        Injected(hist[r], i) =>
            LET fact == FactOf(Before(hist[r], i), hist[r].table)
                o == After(hist[r], i)
                want == IF fact.oauth_scopes = <<>> THEN MappedScopes(fact)
                        ELSE fact.oauth_scopes
            IN  /\ Has(o, "security") /\ Has(o, "x-scopes")
                /\ o.security[1].oauth2 = want
                /\ o["x-scopes"] = want
                /\ (fact = [resource |-> RT("ORGANIZATION"), level |-> AL("READ"),
                            oauth_scopes |-> <<>>])
                      => o["x-scopes"] = <<"read:organization">>

C2_Witness ==
    \E r \in Runs : \E i \in VerbOps(hist[r]) :
        /\ Injected(hist[r], i)
        /\ FactOf(Before(hist[r], i), hist[r].table) =
              [resource |-> RT("ORGANIZATION"), level |-> AL("READ"),
               oauth_scopes |-> <<>>]
        /\ After(hist[r], i)["x-scopes"] = <<"read:organization">>

\* ---- C3
\* C3: an operation correlated to a fact with a non-empty effective scope list
\* has after injection a security list of exactly two alternatives, first
\* {oauth2: effective scopes}, then {apiKey: []}; what security held before is
\* replaced.
C3_SecurityTwoAlternatives ==
    \A r \in Runs : \A i \in VerbOps(hist[r]) :
        Injected(hist[r], i) =>
            LET o == After(hist[r], i)
                want == ExpectedScopes(FactOf(Before(hist[r], i), hist[r].table))
            IN  /\ Has(o, "security")
                /\ Len(o.security) = 2
                /\ DOMAIN o.security[1] = {"oauth2"}
                /\ o.security[1].oauth2 = want
                /\ DOMAIN o.security[2] = {"apiKey"}
                /\ o.security[2].apiKey = <<>>

C3_Witness ==
    \E r \in Runs : \E i \in VerbOps(hist[r]) :
        /\ Injected(hist[r], i)
        /\ Has(Before(hist[r], i), "security")
        /\ Before(hist[r], i).security = <<[basicAuth |-> <<>>]>>
        /\ Len(After(hist[r], i).security) = 2

\* ---- C4
\* C4: an operation for which no fact matches is after injection exactly what
\* it was before.
C4_UnresolvedUnchanged ==
    \A r \in Runs : \A i \in VerbOps(hist[r]) :
        ~Resolved(Before(hist[r], i), hist[r].table) =>
            After(hist[r], i) = Before(hist[r], i)

C4_Witness ==
    \E r \in Runs : \E i \in VerbOps(hist[r]) :
        /\ hist[r].table # <<>>
        /\ OpId(Before(hist[r], i)) = <<"Health", "_", "Check">>
        /\ Has(Before(hist[r], i), "description")
        /\ After(hist[r], i) = Before(hist[r], i)

\* ---- C5
ScopeBearing(security) ==
    /\ security # <<>>
    /\ \E a \in 1..Len(security) : \E k \in DOMAIN security[a] : security[a][k] # <<>>

\* C5 as claimed: every operation resolved to a fact has after injection a
\* non-empty security list with a scope-bearing alternative, also when the
\* fact has no explicit scopes and its pair is not in the Scope Mapping Table.
C5_ResolvedAlwaysSecured ==
    \A r \in Runs : \A i \in VerbOps(hist[r]) :
        Resolved(Before(hist[r], i), hist[r].table) =>
            /\ Has(After(hist[r], i), "security")
            /\ ScopeBearing(After(hist[r], i).security)

\* C5 as amended: every operation resolved to a fact whose effective scope
\* list is non-empty has after injection a non-empty security list with a
\* scope-bearing alternative.
C5_InjectedSecured ==
    \A r \in Runs : \A i \in VerbOps(hist[r]) :
        Injected(hist[r], i) =>
            /\ Has(After(hist[r], i), "security")
            /\ ScopeBearing(After(hist[r], i).security)

C5_Witness ==
    \E r \in Runs : \E i \in VerbOps(hist[r]) :
        /\ Injected(hist[r], i)
        /\ ~Has(Before(hist[r], i), "security")
        /\ FactOf(Before(hist[r], i), hist[r].table).oauth_scopes = <<>>
        /\ ScopeBearing(After(hist[r], i).security)

\* ---- C6
NoEffectiveScopes(h, i) ==
    /\ Resolved(Before(h, i), h.table)
    /\ FactOf(Before(h, i), h.table).oauth_scopes = <<>>
    /\ <<FactOf(Before(h, i), h.table).resource, FactOf(Before(h, i), h.table).level>>
          \notin MappedPairs

\* C6: an operation correlated to a fact without explicit scopes whose pair has
\* no Scope Mapping Table entry is left exactly as it was: security, summary,
\* description and the x- fields are untouched.
C6_SkipWhenNoScopes ==
    \A r \in Runs : \A i \in VerbOps(hist[r]) :
        NoEffectiveScopes(hist[r], i) => After(hist[r], i) = Before(hist[r], i)

C6_Witness ==
    \E r \in Runs : \E i \in VerbOps(hist[r]) :
        /\ NoEffectiveScopes(hist[r], i)
        /\ Has(Before(hist[r], i), "summary")
        /\ After(hist[r], i) = Before(hist[r], i)
        /\ ~Has(After(hist[r], i), "x-scopes")

\* ---- C7
\* C7: a second run on the output of the first, with the same FactTable,
\* leaves security, description and summary of every annotated operation as
\* the first run left them.
C7_SecondRunSame ==
    \A r \in Runs : \A i \in VerbOps(hist[r]) :
        (r > 1 /\ hist[r].table = hist[r - 1].table /\ Injected(hist[r - 1], i)) =>
            /\ After(hist[r], i).security = After(hist[r - 1], i).security
            /\ After(hist[r], i).description = After(hist[r - 1], i).description
            /\ After(hist[r], i).summary = After(hist[r - 1], i).summary

\* ---- C8
Schemes(doc) == doc.components.securitySchemes

\* C8: after every run components.securitySchemes holds oauth2 and apiKey with
\* their fixed definitions, whatever these entries held before, and a further
\* run leaves the section equal.
C8_SchemesIdempotent ==
    \A r \in Runs :
        LET doc == hist[r].after
        IN  /\ Has(doc, "components") /\ Has(doc.components, "securitySchemes")
            /\ {"oauth2", "apiKey"} \subseteq DOMAIN Schemes(doc)
            /\ DOMAIN Schemes(doc).oauth2 = {"type", "description", "flows"}
            /\ Schemes(doc).oauth2.type = "oauth2"
            /\ DOMAIN Schemes(doc).oauth2.flows = {"authorizationCode"}
            /\ Schemes(doc).oauth2.flows.authorizationCode.authorizationUrl
                  = "/auth/oauth/authorize"
            /\ Schemes(doc).oauth2.flows.authorizationCode.tokenUrl = "/auth/oauth/token"
            /\ Schemes(doc).oauth2.flows.authorizationCode.scopes = SCOPE_DESCRIPTIONS
            /\ DOMAIN Schemes(doc).apiKey
                  = {"type", "scheme", "bearerFormat", "description"}
            /\ Schemes(doc).apiKey.type = "http"
            /\ Schemes(doc).apiKey.scheme = "bearer"
            /\ r > 1 => Schemes(doc) = Schemes(hist[r - 1].after)

C8_Witness ==
    /\ Len(hist) >= 2
    /\ Has(hist[1].before, "components")
    /\ Has(hist[1].before.components, "securitySchemes")
    /\ Has(Schemes(hist[1].before), "oauth2")
    /\ Schemes(hist[1].before).oauth2 = [type |-> "oauth2"]
    /\ Schemes(hist[2].after).oauth2.flows.authorizationCode.tokenUrl = "/auth/oauth/token"

\* ---- what a proto source declares, read with brace matching
OpensBrace(tok) == tok.t \in {"service", "rpc", "scopeopt", "otheropt"}

\* index of the brace that closes the block entered just before position i
RECURSIVE ClosingBrace(_, _, _)
ClosingBrace(s, i, depth) ==
    IF i > Len(s) THEN 0
    ELSE IF OpensBrace(s[i]) THEN ClosingBrace(s, i + 1, depth + 1)
    ELSE IF HasRBrace(s[i])
         THEN IF depth = 0 THEN i ELSE ClosingBrace(s, i + 1, depth - 1)
    ELSE ClosingBrace(s, i + 1, depth)

\* positions of the method declarations of a source
MethodsAt(content) == {p \in 1..Len(content) : content[p].t \in {"rpc", "rpcdecl"}}

\* the text between the braces of the method declared at p
BodyAt(content, p) ==
    IF content[p].t = "rpcdecl" THEN <<>>
    ELSE SubSeq(content, p + 1, ClosingBrace(content, p + 1, 0) - 1)

\* the service declaration nearest before p
ServiceAt(content, p) ==
    content[CHOOSE q \in 1..p : /\ content[q].t = "service"
                                /\ \A q2 \in (q + 1)..p : content[q2].t # "service"].v

\* the text between the braces of the method's required_scope option
BlockOf(body) ==
    LET opts == {a \in 1..Len(body) : body[a].t = "scopeopt"}
    IN  IF opts = {} THEN <<>>
        ELSE LET a == CHOOSE x \in opts : \A y \in opts : x <= y
             IN  SubSeq(body, a + 1, ClosingBrace(body, a + 1, 0) - 1)

FieldsOf(block, kind, prefix) ==
    {k \in 1..Len(block) :
        block[k].t = kind /\ Len(block[k].v) = 2 /\ block[k].v[1] = prefix}

WellFormed(body) ==
    /\ FieldsOf(BlockOf(body), "resource", "RESOURCE_TYPE_") # {}
    /\ FieldsOf(BlockOf(body), "level", "ACCESS_LEVEL_") # {}

RECURSIVE WrittenScopes(_)
WrittenScopes(block) ==
    IF block = <<>> THEN <<>>
    ELSE (IF Head(block).t = "oauth" THEN Head(block).v ELSE <<>>)
         \o WrittenScopes(Tail(block))

\* the values written in the block of a well-formed method body
WrittenFact(body) ==
    LET block == BlockOf(body)
        rs == FieldsOf(block, "resource", "RESOURCE_TYPE_")
        ls == FieldsOf(block, "level", "ACCESS_LEVEL_")
    IN  [resource |-> block[CHOOSE x \in rs : \A y \in rs : x <= y].v,
         level |-> block[CHOOSE x \in ls : \A y \in ls : x <= y].v,
         oauth_scopes |-> WrittenScopes(block)]

DeclaredPackage(content) ==
    LET ps == {p \in 1..Len(content) : content[p].t = "package"}
    IN  IF ps = {} THEN <<"libops", ".", "v1">>
        ELSE content[CHOOSE x \in ps : \A y \in ps : x <= y].v

\* "<namespace>.<Service>/<Method>" of the method declared at p
KeyAt(content, p) ==
    DeclaredPackage(content) \o <<".">> \o ServiceAt(content, p) \o <<"/">> \o content[p].v

\* the sources extract_scopes parses
ParsedFiles == {f \in 1..Len(schema) : ~schema[f].options_path}

\* the last well-formed declaration of the key of the method at (f, p)
IsLastWellFormed(f, p) ==
    LET c == schema[f].content
    IN  /\ WellFormed(BodyAt(c, p))
        /\ \A g \in ParsedFiles : \A q \in MethodsAt(schema[g].content) :
              (/\ KeyAt(schema[g].content, q) = KeyAt(c, p)
               /\ WellFormed(BodyAt(schema[g].content, q)))
                 => (g < f \/ (g = f /\ q <= p))

ExtractionDone == pc = "load"

\* ---- C9
\* C9: every method declaration with a well-formed required_scope block, in
\* whatever layout, has after extraction one entry keyed
\* "<namespace>.<Service>/<Method>" holding the resource, level and
\* oauth_scopes written in its block (of the last declaration, if the method
\* is declared more than once).
C9_WellFormedExtracted ==
    ExtractionDone =>
        \A f \in ParsedFiles : \A p \in MethodsAt(schema[f].content) :
            IsLastWellFormed(f, p) =>
                /\ DictHas(method_scopes, KeyAt(schema[f].content, p))
                /\ DictGet(method_scopes, KeyAt(schema[f].content, p))
                      = WrittenFact(BodyAt(schema[f].content, p))

\* ---- C10
\* C10: a method without a required_scope block, or whose block lacks
\* resource: or level:, has no entry under its own name, also when a method
\* with a well-formed block follows it in the service; that later method
\* still has its own entry.
C10_UnannotatedSkipped ==
    ExtractionDone =>
        \A f \in ParsedFiles :
            LET c == schema[f].content
            IN  /\ \A p \in MethodsAt(c) :
                      (\A g \in ParsedFiles : \A q \in MethodsAt(schema[g].content) :
                          KeyAt(schema[g].content, q) = KeyAt(c, p)
                             => ~WellFormed(BodyAt(schema[g].content, q)))
                        => ~DictHas(method_scopes, KeyAt(c, p))
                /\ \A p \in MethodsAt(c) : \A q \in MethodsAt(c) :
                      (/\ p < q
                       /\ ~WellFormed(BodyAt(c, p))
                       /\ IsLastWellFormed(f, q))
                        => /\ DictHas(method_scopes, KeyAt(c, q))
                           /\ DictGet(method_scopes, KeyAt(c, q))
                                 = WrittenFact(BodyAt(c, q))

\* ---- C11
\* the normalisation the claim describes: path and namespace separators and
\* underscores removed
ClaimNormalize(s) == Replace(Replace(Replace(s, "/"), "."), "_")

ClaimEntries(op, table) ==
    {k \in 1..Len(table) :
        /\ OpId(op) # <<>>
        /\ Contains(ClaimNormalize(table[k].key), ClaimNormalize(OpId(op)))}

ClaimFact(op, table) ==
    table[CHOOSE k \in ClaimEntries(op, table) :
            \A j \in ClaimEntries(op, table) : k <= j].scope

\* C11: with separators and underscores removed from the operation identifier
\* and from every key, an operation resolves to the first key that contains
\* its identifier: an identifier and a key that differ only in underscores or
\* separators correlate, and the operation is injected from that key's fact.
C11_NormalizedBothSides ==
    \A r \in Runs : \A i \in VerbOps(hist[r]) :
        LET op == Before(hist[r], i)
            table == hist[r].table
        IN  /\ ClaimEntries(op, table) = {} => After(hist[r], i) = op
            /\ (/\ ClaimEntries(op, table) # {}
                /\ ExpectedScopes(ClaimFact(op, table)) # <<>>)
               => /\ "x-scopes" \in DOMAIN After(hist[r], i)
                  /\ After(hist[r], i)["x-scopes"]
                        = ExpectedScopes(ClaimFact(op, table))

\* ---- C12
\* the declaration at (f1, p1) comes before the one at (f2, p2) in the order
\* in which the files are parsed and read
DeclaredBefore(f1, p1, f2, p2) == f1 < f2 \/ (f1 = f2 /\ p1 < p2)

Declarations(key) ==
    UNION {{<<f, p>> : p \in {q \in MethodsAt(schema[f].content) :
                                  KeyAt(schema[f].content, q) = key}} :
            f \in ParsedFiles}

\* C12: when the normalized identifier is contained in several keys, the
\* operation is injected from the fact of the first such key in the order of
\* the table, whatever the later matching keys hold; and the table's order is
\* the order in which the methods were declared in the schema files.
C12_FirstKeyWins ==
    \A r \in Runs :
        LET table == hist[r].table
        IN  /\ \A a \in 1..Len(table) : \A b \in (a + 1)..Len(table) :
                  \E d1 \in Declarations(table[a].key) :
                      \A d2 \in Declarations(table[b].key) :
                          DeclaredBefore(d1[1], d1[2], d2[1], d2[2])
            /\ \A i \in VerbOps(hist[r]) :
                  LET K == ResolvingEntries(Before(hist[r], i), table)
                      first == CHOOSE k \in K : \A j \in K : k <= j
                  IN  (K # {} /\ ExpectedScopes(table[first].scope) # <<>>)
                      => /\ "x-scopes" \in DOMAIN After(hist[r], i)
                         /\ After(hist[r], i)["x-scopes"]
                               = ExpectedScopes(table[first].scope)
                         /\ After(hist[r], i).security
                               = <<[oauth2 |-> ExpectedScopes(table[first].scope)],
                                   [apiKey |-> <<>>]>>

C12_Witness ==
    \E r \in Runs : \E i \in VerbOps(hist[r]) :
        LET K == ResolvingEntries(Before(hist[r], i), hist[r].table)
        IN  /\ Cardinality(K) = 2
            /\ \E a \in K : \E b \in K :
                  /\ a < b
                  /\ ExpectedScopes(hist[r].table[a].scope)
                        # ExpectedScopes(hist[r].table[b].scope)
                  /\ ExpectedScopes(hist[r].table[b].scope) # <<>>
                  /\ "x-scopes" \in DOMAIN After(hist[r], i)
                  /\ After(hist[r], i)["x-scopes"]
                        = ExpectedScopes(hist[r].table[a].scope)

\* ---- C13
\* "[Requires: <scope1>, <scope2>, ...]"
RequiresSuffix(scopes) == <<"[Requires: ">> \o Join(", ", scopes) \o <<"]">>

\* C13: the summary of an injected operation is its previous summary, a
\* space and "[Requires: <scopes joined by comma and space>]", or the suffix
\* alone when it had no summary, whether or not it has a description.
C13_SummarySuffix ==
    \A r \in Runs : \A i \in VerbOps(hist[r]) :
        Injected(hist[r], i) =>
            LET op == Before(hist[r], i)
                scopes == ExpectedScopes(FactOf(op, hist[r].table))
            IN  /\ "summary" \in DOMAIN After(hist[r], i)
                /\ After(hist[r], i).summary
                      = IF "summary" \in DOMAIN op
                        THEN op.summary \o <<" ">> \o RequiresSuffix(scopes)
                        ELSE RequiresSuffix(scopes)

\* ---- C14
\* the <<resource, scope>> pairs of the rows of the last table of a description
TableRule == "|----------|-------|"

TablePairs(desc) ==
    LET j == CHOOSE x \in 1..Len(desc) :
                 /\ desc[x] = TableRule
                 /\ \A y \in (x + 1)..Len(desc) : desc[y] # TableRule
        body == SubSeq(desc, j + 2, Len(desc))
        n == (Len(body) + 1) \div 8
    IN  [k \in 1..n |-> <<body[8 * (k - 1) + 2], body[8 * (k - 1) + 5]>>]

\* one pair per resource and scope, resources in the outer order
PairsOf(resources, scopes) ==
    [k \in 1..(Len(resources) * Len(scopes)) |->
        <<resources[((k - 1) \div Len(scopes)) + 1],
          scopes[((k - 1) % Len(scopes)) + 1]>>]

HasTable(op) ==
    /\ "description" \in DOMAIN op
    /\ \E x \in 1..Len(op.description) : op.description[x] = TableRule

\* the chain account, organization, project, site up to the resource's type
ChainUpTo(resource) ==
    CASE resource = RT("ACCOUNT") -> <<"Account">>
      [] resource = RT("ORGANIZATION") -> <<"Account", "Organization">>
      [] resource = RT("PROJECT") -> <<"Account", "Organization", "Project">>
      [] resource = RT("SITE") -> <<"Account", "Organization", "Project", "Site">>
      [] OTHER -> <<>>

\* the chain organization, project, site up to the resource's type; an
\* account on its own
AncestorsOf(resource) ==
    CASE resource = RT("ACCOUNT") -> <<"Account">>
      [] resource = RT("ORGANIZATION") -> <<"Organization">>
      [] resource = RT("PROJECT") -> <<"Organization", "Project">>
      [] resource = RT("SITE") -> <<"Organization", "Project", "Site">>
      [] OTHER -> <<>>

ChainTypes == {RT("ACCOUNT"), RT("ORGANIZATION"), RT("PROJECT"), RT("SITE")}

\* C14 as claimed: the table in the description of an injected operation has
\* exactly one row per pair of an ancestor resource type and an effective
\* scope, the ancestors being the prefix of account, organization, project,
\* site that ends at the fact's resource type.
C14_RowsForWholeChain ==
    \A r \in Runs : \A i \in VerbOps(hist[r]) :
        LET fact == FactOf(Before(hist[r], i), hist[r].table)
        IN  (Injected(hist[r], i) /\ fact.resource \in ChainTypes)
            => /\ HasTable(After(hist[r], i))
               /\ TablePairs(After(hist[r], i).description)
                     = PairsOf(ChainUpTo(fact.resource), ExpectedScopes(fact))

\* C14 as amended: the ancestors are the prefix of organization, project,
\* site that ends at the fact's resource type, and Account alone for an
\* account fact; one row per pair of such a type and an effective scope.
C14_RowsForHierarchy ==
    \A r \in Runs : \A i \in VerbOps(hist[r]) :
        LET fact == FactOf(Before(hist[r], i), hist[r].table)
        IN  (Injected(hist[r], i) /\ fact.resource \in ChainTypes)
            => /\ HasTable(After(hist[r], i))
               /\ TablePairs(After(hist[r], i).description)
                     = PairsOf(AncestorsOf(fact.resource), ExpectedScopes(fact))

C14_Witness ==
    \E r \in Runs : \E i \in VerbOps(hist[r]) :
        /\ Injected(hist[r], i)
        /\ FactOf(Before(hist[r], i), hist[r].table).resource = RT("SITE")
        /\ HasTable(After(hist[r], i))
        /\ Len(TablePairs(After(hist[r], i).description)) = 12
        /\ TablePairs(After(hist[r], i).description)[11] = <<"Site", "read:site">>

\* ---- C15
\* the enumeration names without their prefix, in lower case
LowerName ==
    [n \in {"ACCOUNT", "ORGANIZATION", "PROJECT", "SITE", "UNSPECIFIED",
            "READ", "WRITE", "ADMIN"} |->
        CASE n = "ACCOUNT" -> "account"
          [] n = "ORGANIZATION" -> "organization"
          [] n = "PROJECT" -> "project"
          [] n = "SITE" -> "site"
          [] n = "UNSPECIFIED" -> "unspecified"
          [] n = "READ" -> "read"
          [] n = "WRITE" -> "write"
          [] n = "ADMIN" -> "admin"]

\* "<resource>:<level>"
MinAccessLevel(fact) ==
    <<LowerName[fact.resource[2]], ":", LowerName[fact.level[2]]>>

\* C15: every injected operation carries x-scopes equal to its effective scope
\* sequence, x-auth-type equal to "oauth2 or apiKey", and x-min-access-level
\* equal to "<resource>:<level>", both lower-cased and without their
\* enumeration prefixes.
C15_Extensions ==
    \A r \in Runs : \A i \in VerbOps(hist[r]) :
        Injected(hist[r], i) =>
            LET fact == FactOf(Before(hist[r], i), hist[r].table)
                o == After(hist[r], i)
            IN  /\ {"x-scopes", "x-auth-type", "x-min-access-level"} \subseteq DOMAIN o
                /\ o["x-scopes"] = ExpectedScopes(fact)
                /\ o["x-auth-type"] = <<"oauth2 or apiKey">>
                /\ o["x-min-access-level"] = MinAccessLevel(fact)

C15_Witness ==
    \E r \in Runs : \E i \in VerbOps(hist[r]) :
        /\ Injected(hist[r], i)
        /\ FactOf(Before(hist[r], i), hist[r].table).resource = RT("ORGANIZATION")
        /\ FactOf(Before(hist[r], i), hist[r].table).level = AL("READ")
        /\ "x-min-access-level" \notin DOMAIN Before(hist[r], i)
        /\ "x-min-access-level" \in DOMAIN After(hist[r], i)
        /\ After(hist[r], i)["x-min-access-level"] = <<"organization", ":", "read">>
        /\ After(hist[r], i)["x-auth-type"] = <<"oauth2 or apiKey">>

\* ---- C16
FileAsAtStart == fstate = start.fstate /\ file = start.file

\* C16: the file is overwritten only after scheme registration and injection
\* have finished on the in-memory copy, and an invocation that fails, at
\* extraction, load, registration, injection or during the write itself,
\* leaves the file as it was when the invocation began, never truncated or
\* partially written.
C16_FailureLeavesFile ==
    /\ pc \in {"start", "extract", "load", "schemes", "ops", "write"} => FileAsAtStart
    /\ pc = "failed" => FileAsAtStart

\* ---- C17
\* C17: when the OpenAPI file is missing or cannot be parsed, the invocation
\* ends with a non-zero status, without reaching registration, injection or
\* the write (and, when the file is missing, without extracting), leaves the
\* file as it was and creates none.
C17_MissingOrUnparsable ==
    start.fstate \in {"missing", "malformed"} =>
        /\ FileAsAtStart
        /\ pc \in {"start", "extract", "load", "failed"}
        /\ start.fstate = "missing" => pc \in {"start", "failed"}
        /\ hist = <<>>

C17_Witness ==
    /\ start.fstate = "malformed"
    /\ fstate = "malformed"
    /\ method_scopes # <<>>
    /\ pc = "failed"

C17_WitnessMissing ==
    /\ fstate = "missing"
    /\ pc = "failed"

\* ---- C18
CarriesInjected(op) == InjectedFields \subseteq DOMAIN op

\* the four fields as injection computes them from a fact
RecomputedFrom(op, fact) ==
    /\ op.security = <<[oauth2 |-> ExpectedScopes(fact)], [apiKey |-> <<>>]>>
    /\ op["x-scopes"] = ExpectedScopes(fact)
    /\ op["x-auth-type"] = <<"oauth2 or apiKey">>
    /\ op["x-min-access-level"] = MinAccessLevel(fact)

\* C18 as claimed: whatever the sequence of runs and tables, an operation
\* keeps every one of security, x-scopes, x-auth-type and x-min-access-level
\* it carried before a run, and when it carried them and is correlated again
\* in that run, their values are those recomputed from the current fact.
C18_KeptAndRecomputed ==
    \A r \in Runs : \A i \in VerbOps(hist[r]) :
        LET b == Before(hist[r], i)
            a == After(hist[r], i)
        IN  /\ \A f \in InjectedFields : f \in DOMAIN b => f \in DOMAIN a
            /\ (CarriesInjected(b) /\ Resolved(b, hist[r].table))
               => RecomputedFrom(a, FactOf(b, hist[r].table))

\* C18 as amended: the fields are kept; they are recomputed from the current
\* fact when the operation is correlated again to a fact whose effective
\* scope list is non-empty, and keep their values otherwise.
C18_KeptRecomputedWhenScoped ==
    \A r \in Runs : \A i \in VerbOps(hist[r]) :
        LET b == Before(hist[r], i)
            a == After(hist[r], i)
        IN  /\ \A f \in InjectedFields : f \in DOMAIN b => f \in DOMAIN a
            /\ (CarriesInjected(b) /\ Injected(hist[r], i))
               => RecomputedFrom(a, FactOf(b, hist[r].table))
            /\ ~Injected(hist[r], i)
               => \A f \in InjectedFields : f \in DOMAIN b => a[f] = b[f]

C18_Witness ==
    \E r \in Runs : \E i \in VerbOps(hist[r]) :
        /\ r > 1
        /\ hist[r].table # hist[r - 1].table
        /\ CarriesInjected(Before(hist[r], i))
        /\ Injected(hist[r], i)
        /\ After(hist[r], i)["x-scopes"] # Before(hist[r], i)["x-scopes"]
        /\ RecomputedFrom(After(hist[r], i), FactOf(Before(hist[r], i), hist[r].table))

\* an operation injected by an earlier run keeps its fields in a run that
\* resolves it to nothing or to a fact without scopes
C18_WitnessKept ==
    \E r \in Runs : \E i \in VerbOps(hist[r]) :
        /\ r > 1
        /\ CarriesInjected(Before(hist[r], i))
        /\ ~Injected(hist[r], i)
        /\ CarriesInjected(After(hist[r], i))

\* ---- C19
SixFields ==
    {"security", "summary", "description", "x-scopes", "x-auth-type",
     "x-min-access-level"}

\* C19: injection changes no field of an operation other than security,
\* summary, description, x-scopes, x-auth-type and x-min-access-level; the
\* previous description, if any, is a prefix of the new description, and the
\* previous summary, if any, is a prefix of the new summary.
C19_Additive ==
    \A r \in Runs : \A i \in VerbOps(hist[r]) :
        Injected(hist[r], i) =>
            LET b == Before(hist[r], i)
                a == After(hist[r], i)
            IN  /\ DOMAIN a = (DOMAIN b) \cup SixFields
                /\ \A f \in (DOMAIN b) \ SixFields : a[f] = b[f]
                /\ "description" \in DOMAIN b => IsPrefix(b.description, a.description)
                /\ "summary" \in DOMAIN b => IsPrefix(b.summary, a.summary)

\* ---- C20
ResourceTypes == {"ACCOUNT", "ORGANIZATION", "PROJECT", "SITE"}
AccessLevels == {"READ", "WRITE", "ADMIN"}

RecognizedPairs == {<<RT(t), AL(l)>> : t \in ResourceTypes, l \in AccessLevels}

OtherPairs ==
    {<<RT(t), AL(l)>> : t \in ResourceTypes \cup {"UNSPECIFIED"},
                        l \in AccessLevels \cup {"UNSPECIFIED"}}
    \ RecognizedPairs

\* C20: the table has an entry for each of the twelve pairs of a resource type
\* and an access level, each a non-empty list, which is what the lookup
\* returns; for any other pair the lookup returns the empty list; so an
\* operation correlated to a fact with recognized enumeration values always
\* gets a security block with a non-empty scope list.
C20_TableLookup ==
    /\ DOMAIN SCOPE_MAPPING = RecognizedPairs
    /\ Cardinality(RecognizedPairs) = 12
    /\ \A p \in RecognizedPairs :
          /\ p \in DOMAIN SCOPE_MAPPING
          /\ SCOPE_MAPPING[p] # <<>>
          /\ ScopeMappingGet(p[1], p[2]) = SCOPE_MAPPING[p]
    /\ \A p \in OtherPairs : ScopeMappingGet(p[1], p[2]) = <<>>
    /\ \A r \in Runs : \A i \in VerbOps(hist[r]) :
          LET b == Before(hist[r], i)
              a == After(hist[r], i)
          IN  (/\ Resolved(b, hist[r].table)
               /\ <<FactOf(b, hist[r].table).resource,
                    FactOf(b, hist[r].table).level>> \in RecognizedPairs)
              => /\ "security" \in DOMAIN a
                 /\ Len(a.security) = 2
                 /\ DOMAIN a.security[1] = {"oauth2"}
                 /\ a.security[1].oauth2 # <<>>
                 /\ FactOf(b, hist[r].table).oauth_scopes = <<>>
                    => a.security[1].oauth2
                          = ScopeMappingGet(FactOf(b, hist[r].table).resource,
                                            FactOf(b, hist[r].table).level)

C20_Witness ==
    \E r \in Runs : \E i \in VerbOps(hist[r]) :
        /\ Resolved(Before(hist[r], i), hist[r].table)
        /\ FactOf(Before(hist[r], i), hist[r].table)
              = [resource |-> RT("SITE"), level |-> AL("ADMIN"), oauth_scopes |-> <<>>]
        /\ "security" \notin DOMAIN Before(hist[r], i)
        /\ "security" \in DOMAIN After(hist[r], i)
        /\ After(hist[r], i).security[1]
              = [oauth2 |-> <<"delete:site", "write:site", "read:site", "manage_secrets">>]

\* ---- C21
\* the assignments method_scopes[full_method_name] = scope that extraction
\* executes on the parsed files, in the order in which it executes them
RECURSIVE StoredOfMatches(_, _, _)
StoredOfMatches(matches, package_name, service_name) ==
    IF matches = <<>> THEN <<>>
    ELSE LET m == Head(matches)
             scope == ExtractScopeAnnotation(m.options)
         IN  (IF scope.found
              THEN <<[key |-> FullMethodName(package_name, service_name, m.name),
                      scope |-> [resource |-> scope.resource, level |-> scope.level,
                                 oauth_scopes |-> scope.oauth_scopes]]>>
              ELSE <<>>)
             \o StoredOfMatches(Tail(matches), package_name, service_name)

RECURSIVE StoredOfServices(_, _, _)
StoredOfServices(content, starts, i) ==
    IF i > Len(starts) THEN <<>>
    ELSE LET end_pos == IF i + 1 <= Len(starts) THEN starts[i + 1].start - 1
                        ELSE Len(content)
         IN  StoredOfMatches(RpcMatches(SubSeq(content, starts[i].start, end_pos), 1),
                             PackageName(content), starts[i].name)
             \o StoredOfServices(content, starts, i + 1)

RECURSIVE StoredOfFiles(_, _)
StoredOfFiles(sch, f) ==
    IF f > Len(sch) THEN <<>>
    ELSE (IF sch[f].options_path THEN <<>>
          ELSE StoredOfServices(sch[f].content, ServiceStarts(sch[f].content, 1), 1))
         \o StoredOfFiles(sch, f + 1)

Stored(sch) == StoredOfFiles(sch, 1)

FirstStored(ev, key) ==
    CHOOSE x \in 1..Len(ev) : ev[x].key = key /\ \A y \in 1..(x - 1) : ev[y].key # key

LastStored(ev, key) ==
    CHOOSE x \in 1..Len(ev) :
        ev[x].key = key /\ \A y \in (x + 1)..Len(ev) : ev[y].key # key

\* C21: the keys of the table are unique; a method that is extracted more
\* than once, in one file or in several, does not stop extraction, has exactly
\* one entry, and the entry holds the fact extracted last.
C21_LastWriterWins ==
    ExtractionDone =>
        LET ev == Stored(schema)
        IN  /\ \A i \in 1..Len(method_scopes) : \A j \in 1..Len(method_scopes) :
                  method_scopes[i].key = method_scopes[j].key => i = j
            /\ {method_scopes[i].key : i \in 1..Len(method_scopes)}
                  = {ev[x].key : x \in 1..Len(ev)}
            /\ \A i \in 1..Len(method_scopes) :
                  method_scopes[i].scope
                     = ev[LastStored(ev, method_scopes[i].key)].scope

\* the same method declared in two files, both in the two-space layout, with
\* different facts: one entry, holding the fact of the second file
C21_Witness ==
    /\ ExtractionDone
    /\ Len(schema) = 2
    /\ ParsedFiles = {1, 2}
    /\ \E p \in MethodsAt(schema[1].content) : \E q \in MethodsAt(schema[2].content) :
          /\ KeyAt(schema[1].content, p) = KeyAt(schema[2].content, q)
          /\ WellFormed(BodyAt(schema[1].content, p))
          /\ WellFormed(BodyAt(schema[2].content, q))
          /\ schema[1].content[ClosingBrace(schema[1].content, p + 1, 0)].t = "rpcend"
          /\ schema[2].content[ClosingBrace(schema[2].content, q + 1, 0)].t = "rpcend"
          /\ WrittenFact(BodyAt(schema[1].content, p))
                # WrittenFact(BodyAt(schema[2].content, q))
          /\ Len(method_scopes) = 1
          /\ method_scopes[1].scope = WrittenFact(BodyAt(schema[2].content, q))

\* ---- C22
FiveVerbs == {"get", "post", "put", "patch", "delete"}

PathsOf(doc) == IF "paths" \in DOMAIN doc THEN doc.paths ELSE <<>>

\* C22: injection passes every operation under get, post, put, patch or
\* delete to the Correlator and leaves every other entry of a path item as it
\* was, also when that entry has an operationId that correlates to a fact.
C22_OnlyFiveVerbs ==
    \A r \in Runs :
        LET before == PathsOf(hist[r].before)
            after == PathsOf(hist[r].after)
        IN  /\ Len(after) = Len(before)
            /\ \A i \in 1..Len(before) :
                  /\ after[i].path = before[i].path
                  /\ after[i].method = before[i].method
                  /\ before[i].method \notin FiveVerbs => after[i] = before[i]
                  /\ (/\ before[i].method \in FiveVerbs
                      /\ Resolved(before[i].operation, hist[r].table)
                      /\ ExpectedScopes(FactOf(before[i].operation, hist[r].table)) # <<>>)
                     => /\ "x-scopes" \in DOMAIN after[i].operation
                        /\ after[i].operation["x-scopes"]
                              = ExpectedScopes(FactOf(before[i].operation, hist[r].table))

C22_Witness ==
    \E r \in Runs : \E i \in 1..Len(PathsOf(hist[r].before)) :
        /\ hist[r].before.paths[i].method = "head"
        /\ Resolved(hist[r].before.paths[i].operation, hist[r].table)
        /\ ExpectedScopes(FactOf(hist[r].before.paths[i].operation, hist[r].table)) # <<>>
        /\ hist[r].after.paths[i] = hist[r].before.paths[i]

\* ---- C23
\* position of the service declaration nearest before p
ServiceStartOf(content, p) ==
    CHOOSE q \in 1..p : /\ content[q].t = "service"
                        /\ \A q2 \in (q + 1)..p : content[q2].t # "service"

\* every method of the file closes with its brace after a newline and two spaces
TwoSpaceLayout(content) ==
    \A p \in MethodsAt(content) :
        content[p].t = "rpc"
        /\ content[ClosingBrace(content, p + 1, 0)].t = "rpcend"

\* C23: every entry of the table is keyed "<namespace>.<Service>/<Method>" for
\* a method declared in a parsed file whose namespace (libops.v1 when it
\* declares none) is <namespace> and whose nearest preceding service
\* declaration is <Service>, and holds a fact written in a method of that
\* same service body; a method with a well-formed block in a file in the
\* two-space layout has its entry under exactly that key.
C23_KeyedByNearestService ==
    ExtractionDone =>
        /\ \A i \in 1..Len(method_scopes) :
              \E f \in ParsedFiles : \E p \in MethodsAt(schema[f].content) :
                  LET c == schema[f].content
                  IN  /\ method_scopes[i].key
                            = DeclaredPackage(c) \o <<".">>
                              \o c[ServiceStartOf(c, p)].v \o <<"/">> \o c[p].v
                      /\ \E p2 \in MethodsAt(c) :
                            /\ ServiceStartOf(c, p2) = ServiceStartOf(c, p)
                            /\ WellFormed(BodyAt(c, p2))
                            /\ method_scopes[i].scope = WrittenFact(BodyAt(c, p2))
        /\ \A f \in ParsedFiles : \A p \in MethodsAt(schema[f].content) :
              LET c == schema[f].content
              IN  (TwoSpaceLayout(c) /\ WellFormed(BodyAt(c, p)))
                  => DictHas(method_scopes,
                             DeclaredPackage(c) \o <<".">>
                             \o c[ServiceStartOf(c, p)].v \o <<"/">> \o c[p].v)

\* a file with two services that declare a method of the same name with
\* different facts: two entries, each under its own service
C23_Witness ==
    /\ ExtractionDone
    /\ Len(schema) = 1
    /\ LET c == schema[1].content
       IN  /\ TwoSpaceLayout(c)
           /\ \E p \in MethodsAt(c) : \E q \in MethodsAt(c) :
                 /\ p < q
                 /\ ServiceStartOf(c, p) # ServiceStartOf(c, q)
                 /\ c[p].v = c[q].v
                 /\ WellFormed(BodyAt(c, p))
                 /\ WellFormed(BodyAt(c, q))
                 /\ WrittenFact(BodyAt(c, p)) # WrittenFact(BodyAt(c, q))
                 /\ Len(method_scopes) = 2
                 /\ method_scopes[1]
                       = [key |-> <<"acme", ".", "v2", ".", "OrgService", "/">> \o c[p].v,
                          scope |-> WrittenFact(BodyAt(c, p))]
                 /\ method_scopes[2]
                       = [key |-> <<"acme", ".", "v2", ".", "ProjectService", "/">> \o c[q].v,
                          scope |-> WrittenFact(BodyAt(c, q))]

\* ---- C24
\* no operation of the document has security or x-scopes
Unsecured(doc) ==
    \A i \in 1..Len(PathsOf(doc)) :
        /\ "security" \notin DOMAIN doc.paths[i].operation
        /\ "x-scopes" \notin DOMAIN doc.paths[i].operation

\* x-scopes and security come together and agree
ScopesAgree(op) ==
    /\ "x-scopes" \in DOMAIN op <=> "security" \in DOMAIN op
    /\ "x-scopes" \in DOMAIN op
       => /\ Len(op.security) >= 1
          /\ "oauth2" \in DOMAIN op.security[1]
          /\ op["x-scopes"] = op.security[1].oauth2
          /\ "x-auth-type" \in DOMAIN op
          /\ op["x-auth-type"] = <<"oauth2 or apiKey">>
          /\ "x-min-access-level" \in DOMAIN op

\* C24: when the document the first run read had no operation with security
\* or x-scopes, then after every run, whatever the tables of the runs, every
\* operation has x-scopes exactly when it has security, and then x-scopes is
\* the scope list of the oauth2 alternative, x-auth-type is "oauth2 or apiKey"
\* and x-min-access-level is present.
C24_ScopesAgreeWithSecurity ==
    (hist # <<>> /\ Unsecured(hist[1].before)) =>
        \A r \in Runs : \A i \in 1..Len(PathsOf(hist[r].after)) :
            ScopesAgree(hist[r].after.paths[i].operation)

C24_Witness ==
    /\ Len(hist) >= 2
    /\ Unsecured(hist[1].before)
    /\ hist[1].table # hist[2].table
    /\ \E i \in VerbOps(hist[2]) :
          /\ Injected(hist[1], i)
          /\ Injected(hist[2], i)
          /\ After(hist[2], i)["x-scopes"] # After(hist[1], i)["x-scopes"]
          /\ After(hist[2], i)["x-scopes"] = After(hist[2], i).security[1].oauth2

\* ---- C25
\* C25: an operation without operationId, or whose operationId is the empty
\* string, is left as it was by every run, whatever the table holds.
C25_EmptyIdNeverCorrelated ==
    \A r \in Runs : \A i \in VerbOps(hist[r]) :
        ("operationId" \notin DOMAIN Before(hist[r], i)
         \/ Before(hist[r], i).operationId = <<>>)
        => After(hist[r], i) = Before(hist[r], i)

\* an operation with the empty string as operationId, run against a table
\* whose first entry has scopes
C25_Witness ==
    \E r \in Runs : \E i \in VerbOps(hist[r]) :
        /\ "operationId" \in DOMAIN Before(hist[r], i)
        /\ Before(hist[r], i).operationId = <<>>
        /\ hist[r].table # <<>>
        /\ ExpectedScopes(hist[r].table[1].scope) # <<>>
        /\ After(hist[r], i) = Before(hist[r], i)

C25_WitnessMissing ==
    \E r \in Runs : \E i \in VerbOps(hist[r]) :
        /\ "operationId" \notin DOMAIN Before(hist[r], i)
        /\ hist[r].table # <<>>
        /\ ExpectedScopes(hist[r].table[1].scope) # <<>>
        /\ After(hist[r], i) = Before(hist[r], i)

\* ---- C26
\* the scope strings of the default lists of the Scope Mapping Table
DefaultScopes ==
    UNION {{SCOPE_MAPPING[p][k] : k \in 1..Len(SCOPE_MAPPING[p])} :
            p \in DOMAIN SCOPE_MAPPING}

\* the scopes dictionary of the oauth2 scheme of a document
DeclaredScopes(doc) ==
    DOMAIN doc.components.securitySchemes.oauth2.flows.authorizationCode.scopes

\* C26: every scope string of a default list of the Scope Mapping Table is a
\* key of the scope-description registry, and after a run every scope of an
\* oauth2 requirement that was derived by fallback is a key of the scopes
\* dictionary of the oauth2 scheme registered in the document.
C26_DefaultScopesDeclared ==
    /\ DefaultScopes \subseteq DOMAIN SCOPE_DESCRIPTIONS
    /\ \A r \in Runs : \A i \in VerbOps(hist[r]) :
          (/\ Injected(hist[r], i)
           /\ FactOf(Before(hist[r], i), hist[r].table).oauth_scopes = <<>>)
          => /\ "components" \in DOMAIN hist[r].after
             /\ "securitySchemes" \in DOMAIN hist[r].after.components
             /\ "oauth2" \in DOMAIN hist[r].after.components.securitySchemes
             /\ \A k \in 1..Len(After(hist[r], i).security[1].oauth2) :
                   After(hist[r], i).security[1].oauth2[k]
                      \in DeclaredScopes(hist[r].after)

C26_Witness ==
    \E r \in Runs : \E i \in VerbOps(hist[r]) :
        /\ Injected(hist[r], i)
        /\ FactOf(Before(hist[r], i), hist[r].table).oauth_scopes = <<>>
        /\ Len(After(hist[r], i).security[1].oauth2) = 4
        /\ After(hist[r], i).security[1].oauth2[4] = "manage_secrets"
        /\ "manage_secrets" \in DeclaredScopes(hist[r].after)
        /\ Cardinality(DeclaredScopes(hist[r].after)) = 29

\* ---- C27
TableKeys(table) == {table[a].key : a \in 1..Len(table)}

\* the keys of the table that contain the operation's identifier
MatchingKeys(op, table) == {table[k].key : k \in ResolvingEntries(op, table)}

\* C27: the entries of the table are in the order in which their keys were
\* first extracted and hold the fact extracted last for their key; an
\* operation whose identifier is contained in several keys is injected from
\* the key that was extracted first among them, with the fact extracted last
\* for that key.
C27_FirstPositionLastFact ==
    \A r \in Runs :
        LET ev == Stored(schema)
            table == hist[r].table
        IN  /\ TableKeys(table) = {ev[x].key : x \in 1..Len(ev)}
            /\ \A a \in 1..Len(table) : \A b \in (a + 1)..Len(table) :
                  FirstStored(ev, table[a].key) < FirstStored(ev, table[b].key)
            /\ \A a \in 1..Len(table) :
                  table[a].scope = ev[LastStored(ev, table[a].key)].scope
            /\ \A i \in VerbOps(hist[r]) :
                  LET M == MatchingKeys(Before(hist[r], i), table)
                      w == CHOOSE k \in M :
                              \A k2 \in M : FirstStored(ev, k) <= FirstStored(ev, k2)
                      fact == ev[LastStored(ev, w)].scope
                  IN  (M # {} /\ ExpectedScopes(fact) # <<>>)
                      => /\ "x-scopes" \in DOMAIN After(hist[r], i)
                         /\ After(hist[r], i)["x-scopes"] = ExpectedScopes(fact)

\* OrgService/ListMembers is extracted first and again last, with
\* ProjectService/ListMembers in between; the identifier ListMembers gets the
\* scopes of the last OrgService fact
C27_Witness ==
    \E r \in Runs : \E i \in VerbOps(hist[r]) :
        LET ev == Stored(schema)
        IN  /\ Len(ev) = 3
            /\ ev[1].key = ev[3].key
            /\ ev[1].key # ev[2].key
            /\ ev[1].scope # ev[3].scope
            /\ Len(hist[r].table) = 2
            /\ hist[r].table[1] = ev[3]
            /\ hist[r].table[2] = ev[2]
            /\ Cardinality(MatchingKeys(Before(hist[r], i), hist[r].table)) = 2
            /\ "x-scopes" \in DOMAIN After(hist[r], i)
            /\ After(hist[r], i)["x-scopes"] = ExpectedScopes(ev[3].scope)
            /\ ExpectedScopes(ev[3].scope) # ExpectedScopes(ev[2].scope)
            /\ ExpectedScopes(ev[3].scope) # ExpectedScopes(ev[1].scope)

\* ---- C28
MembersOf(d, k) == IF k \in DOMAIN d THEN d[k] ELSE <<>>

\* C28: a run changes, outside paths, only the oauth2 and apiKey entries of
\* components.securitySchemes: the other security schemes, the other members
\* of components and the other top-level sections are as they were, no
\* section disappears, and components and securitySchemes exist afterwards
\* also when the document had none.
C28_RegistrationFrame ==
    \A r \in Runs :
        LET b == hist[r].before
            a == hist[r].after
            bc == MembersOf(b, "components")
            bs == MembersOf(bc, "securitySchemes")
        IN  /\ DOMAIN a = (DOMAIN b) \cup {"components"}
            /\ \A k \in (DOMAIN b) \ {"components", "paths"} : a[k] = b[k]
            /\ DOMAIN a.components = (DOMAIN bc) \cup {"securitySchemes"}
            /\ \A k \in (DOMAIN bc) \ {"securitySchemes"} : a.components[k] = bc[k]
            /\ DOMAIN a.components.securitySchemes = (DOMAIN bs) \cup {"oauth2", "apiKey"}
            /\ \A k \in (DOMAIN bs) \ {"oauth2", "apiKey"} :
                  a.components.securitySchemes[k] = bs[k]

C28_Witness ==
    \E r \in Runs :
        /\ "components" \in DOMAIN hist[r].before
        /\ DOMAIN hist[r].before.components = {"schemas", "securitySchemes"}
        /\ DOMAIN hist[r].before.components.securitySchemes = {"basicAuth"}
        /\ hist[r].after.components.schemas = hist[r].before.components.schemas
        /\ DOMAIN hist[r].after.components.securitySchemes
              = {"basicAuth", "oauth2", "apiKey"}
        /\ hist[r].after.components.securitySchemes.basicAuth = BasicScheme
        /\ hist[r].after.info = hist[r].before.info

\* a document without components gets the section
C28_WitnessCreated ==
    \E r \in Runs :
        /\ "components" \notin DOMAIN hist[r].before
        /\ DOMAIN hist[r].after.components = {"securitySchemes"}
        /\ DOMAIN hist[r].after.components.securitySchemes = {"oauth2", "apiKey"}

\* ================================================================
\* complete-scopes.py: the writer of required_scope annotations.
\* Its pattern wants a declaration written "  rpc Name(...) returns (...) {"
\* with single spaces, which is how the rpc tokens of the sources below are
\* written; the body it matches runs to the first line that starts with two
\* spaces and '}' (an rpcend token).

MethodScope(name, resource, level, oauth_scopes) ==
    [name |-> name, resource |-> resource, level |-> level,
     oauth_scopes |-> oauth_scopes]

\* METHOD_SCOPES, in the order of the dict
METHOD_SCOPES ==
    <<
      MethodScope("ListProjectFirewallRules", RT("PROJECT"), AL("READ"), <<"read:firewall">>),
      MethodScope("CreateProjectFirewallRule", RT("PROJECT"), AL("WRITE"), <<"write:firewall">>),
      MethodScope("DeleteProjectFirewallRule", RT("PROJECT"), AL("ADMIN"), <<"delete:firewall">>),
      MethodScope("ListSiteFirewallRules", RT("SITE"), AL("READ"), <<"read:firewall">>),
      MethodScope("CreateSiteFirewallRule", RT("SITE"), AL("WRITE"), <<"write:firewall">>),
      MethodScope("DeleteSiteFirewallRule", RT("SITE"), AL("ADMIN"), <<"delete:firewall">>),
      MethodScope("ListOrganizationMembers", RT("ORGANIZATION"), AL("READ"), <<"read:members">>),
      MethodScope("CreateOrganizationMember", RT("ORGANIZATION"), AL("WRITE"), <<"write:members">>),
      MethodScope("UpdateOrganizationMember", RT("ORGANIZATION"), AL("WRITE"), <<"write:members">>),
      MethodScope("DeleteOrganizationMember", RT("ORGANIZATION"), AL("ADMIN"), <<"delete:members">>),
      MethodScope("ListProjectMembers", RT("PROJECT"), AL("READ"), <<"read:members">>),
      MethodScope("CreateProjectMember", RT("PROJECT"), AL("WRITE"), <<"write:members">>),
      MethodScope("UpdateProjectMember", RT("PROJECT"), AL("WRITE"), <<"write:members">>),
      MethodScope("DeleteProjectMember", RT("PROJECT"), AL("ADMIN"), <<"delete:members">>),
      MethodScope("ListSiteMembers", RT("SITE"), AL("READ"), <<"read:members">>),
      MethodScope("CreateSiteMember", RT("SITE"), AL("WRITE"), <<"write:members">>),
      MethodScope("UpdateSiteMember", RT("SITE"), AL("WRITE"), <<"write:members">>),
      MethodScope("DeleteSiteMember", RT("SITE"), AL("ADMIN"), <<"delete:members">>),
      MethodScope("GetSshKey", RT("ACCOUNT"), AL("READ"), <<"read:user">>),
      MethodScope("ListSshKeys", RT("ACCOUNT"), AL("READ"), <<"read:user">>),
      MethodScope("CreateSshKey", RT("ACCOUNT"), AL("WRITE"), <<"write:user">>),
      MethodScope("UpdateSshKey", RT("ACCOUNT"), AL("WRITE"), <<"write:user">>),
      MethodScope("DeleteSshKey", RT("ACCOUNT"), AL("WRITE"), <<"write:user">>),
      MethodScope("GetSiteStatus", RT("SITE"), AL("READ"), <<"read:site">>),
      MethodScope("DeploySite", RT("SITE"), AL("WRITE"), <<"write:site">>),
      MethodScope("ListOrganizationSecrets", RT("ORGANIZATION"), AL("ADMIN"), <<"manage_secrets">>),
      MethodScope("GetOrganizationSecret", RT("ORGANIZATION"), AL("ADMIN"), <<"manage_secrets">>),
      MethodScope("CreateOrganizationSecret", RT("ORGANIZATION"), AL("ADMIN"), <<"manage_secrets">>),
      MethodScope("UpdateOrganizationSecret", RT("ORGANIZATION"), AL("ADMIN"), <<"manage_secrets">>),
      MethodScope("DeleteOrganizationSecret", RT("ORGANIZATION"), AL("ADMIN"), <<"manage_secrets">>),
      MethodScope("ListProjectSecrets", RT("PROJECT"), AL("ADMIN"), <<"manage_secrets">>),
      MethodScope("GetProjectSecret", RT("PROJECT"), AL("ADMIN"), <<"manage_secrets">>),
      MethodScope("CreateProjectSecret", RT("PROJECT"), AL("ADMIN"), <<"manage_secrets">>),
      MethodScope("UpdateProjectSecret", RT("PROJECT"), AL("ADMIN"), <<"manage_secrets">>),
      MethodScope("DeleteProjectSecret", RT("PROJECT"), AL("ADMIN"), <<"manage_secrets">>),
      MethodScope("ListSiteSecrets", RT("SITE"), AL("ADMIN"), <<"manage_secrets">>),
      MethodScope("GetSiteSecret", RT("SITE"), AL("ADMIN"), <<"manage_secrets">>),
      MethodScope("CreateSiteSecret", RT("SITE"), AL("ADMIN"), <<"manage_secrets">>),
      MethodScope("UpdateSiteSecret", RT("SITE"), AL("ADMIN"), <<"manage_secrets">>),
      MethodScope("DeleteSiteSecret", RT("SITE"), AL("ADMIN"), <<"manage_secrets">>),
      MethodScope("GetAccountByEmail", RT("ACCOUNT"), AL("READ"), <<"read:user">>)
    >>

\* 'required_scope' in rpc_body
HasRequiredScope(rpc_body) == \E i \in 1..Len(rpc_body) : rpc_body[i].t = "scopeopt"

\* scope_annotation: the option line, resource, level, allow_parent_access,
\* one oauth_scopes line per scope, and the closing "    };"
ScopeAnnotation(resource, level, oauth_scopes) ==
    <<TScopeOpt, TResource(resource), TLevel(level), TField>>
    \o [i \in 1..Len(oauth_scopes) |-> TOauth(oauth_scopes[i])]
    \o <<TRBrace>>

\* a replacement that does not look for an annotation in the body
ReplaceFuncAlways(rpc_start, rpc_body, rpc_end, scope_annotation) ==
    <<rpc_start>> \o rpc_body \o scope_annotation \o <<rpc_end>>

\* replace_func(match)
ReplaceFunc(rpc_start, rpc_body, rpc_end, scope_annotation) ==
    IF HasRequiredScope(rpc_body)
    THEN <<rpc_start>> \o rpc_body \o <<rpc_end>>
    ELSE <<rpc_start>> \o rpc_body \o scope_annotation \o <<rpc_end>>

\* re.sub(pattern, replace_func, content, flags=re.DOTALL | re.MULTILINE):
\* the non-overlapping matches from position from on are replaced
RECURSIVE ReSub(_, _, _, _)
ReSub(content, from, method_name, scope_annotation) ==
    IF from > Len(content) THEN <<>>
    ELSE IF content[from].t = "rpc" /\ content[from].v = <<method_name>>
         THEN LET q == FirstFrom(content, from + 1, IsRpcEnd)
              IN  IF q = 0
                  THEN <<content[from]>>
                       \o ReSub(content, from + 1, method_name, scope_annotation)
                  ELSE ReplaceFunc(content[from], SubSeq(content, from + 1, q - 1),
                                   content[q], scope_annotation)
                       \o ReSub(content, q + 1, method_name, scope_annotation)
         ELSE <<content[from]>>
              \o ReSub(content, from + 1, method_name, scope_annotation)

\* add_scope_to_rpc(content, method_name, resource, level, oauth_scopes)
AddScopeToRpc(content, method_name, resource, level, oauth_scopes) ==
    ReSub(content, 1, method_name, ScopeAnnotation(resource, level, oauth_scopes))

\* f'rpc {method_name}' in content; a declaration of a longer name that
\* begins with method_name also passes, and add_scope_to_rpc then matches
\* nothing for it
RpcNamed(content, method_name) ==
    \E p \in 1..Len(content) :
        content[p].t \in {"rpc", "rpcdecl"} /\ content[p].v = <<method_name>>

\* the loop of process_file over METHOD_SCOPES.items(), from entry i on
RECURSIVE ProcessMethods(_, _, _)
ProcessMethods(content, changes, i) ==
    IF i > Len(METHOD_SCOPES) THEN [content |-> content, changes |-> changes]
    ELSE LET m == METHOD_SCOPES[i]
             new_content ==
                 IF RpcNamed(content, m.name)
                 THEN AddScopeToRpc(content, m.name, m.resource, m.level,
                                    m.oauth_scopes)
                 ELSE content
         IN  IF new_content # content
             THEN ProcessMethods(new_content, changes + 1, i + 1)
             ELSE ProcessMethods(content, changes, i + 1)

\* ---- inputs of the writer
WriterNames == {"GetSiteStatus", "ListSiteMembers"}

WriterBodies ==
    { <<TOtherOpt, TField, TRBrace>>,
      Annot(RT("ORGANIZATION"), AL("READ"), <<"read:members">>) }

\* the bodies of the declarations written on one line
OneLineBodies ==
    { <<>>,
      Annot(RT("ORGANIZATION"), AL("READ"), <<"read:members">>) }

\* the declarations that close after a newline and two spaces
WriterStdDecls ==
    {<<TRpc(n)>> \o b \o <<TRpcEnd>> : n \in WriterNames, b \in WriterBodies}

WriterDecls ==
    WriterStdDecls
    \cup {<<TRpc(n)>> \o b \o <<TRBrace>> : n \in WriterNames, b \in OneLineBodies}
    \cup {<<TRpcDecl(n)>> : n \in WriterNames}

\* lists of declarations of which at most one is not in that layout
RECURSIVE WriterLists(_)
WriterLists(n) ==
    IF n = 0 THEN {<<>>}
    ELSE LET shorter == WriterLists(n - 1)
         IN  shorter
             \cup UNION {{ms \o m :
                             m \in IF TwoSpaceLayout(ms) THEN WriterDecls
                                   ELSE WriterStdDecls} : ms \in shorter}

WriterSchemas ==
    {<<ProtoFile(FALSE, LibopsPkg \o ServiceText("SiteService", ms))>> :
        ms \in WriterLists(MaxMethods)}

\* the arguments of the calls of add_scope_to_rpc
WriterArgs ==
    { MethodScope("GetSiteStatus", RT("SITE"), AL("ADMIN"),
                  <<"write:site", "read:site">>),
      MethodScope("ListSiteMembers", RT("SITE"), AL("READ"), <<>>) }

NoArgs == MethodScope("", <<>>, <<>>, <<>>)

\* ---- the writer, then the extractor on what it wrote
InitW ==
    /\ schema \in WriterSchemas
    /\ file = [info |-> Info]
    /\ fstate = "ok"
    /\ start = Snapshot
    /\ method_scopes = <<>>
    /\ fi = 0
    /\ spec = [info |-> Info]
    /\ idx = 0
    /\ pc = "complete"
    /\ run = 1
    /\ hist = <<>>

\* content = add_scope_to_rpc(content, method_name, resource, level, oauth_scopes)
AddScopeCall ==
    /\ pc = "complete"
    /\ run <= MaxRuns
    /\ \E a \in WriterArgs :
          LET content == schema[1].content
              new_content == AddScopeToRpc(content, a.name, a.resource, a.level,
                                           a.oauth_scopes)
          IN  /\ schema' = <<ProtoFile(FALSE, new_content)>>
              /\ hist' = Append(hist, [call |-> "add_scope_to_rpc", args |-> a,
                                       before |-> content, after |-> new_content,
                                       changes |-> 0, written |-> FALSE])
    /\ run' = run + 1
    /\ UNCHANGED <<method_scopes, fi, file, fstate, start, spec, idx, pc>>

\* process_file(filepath): the file is written when content # original_content
ProcessFile ==
    /\ pc = "complete"
    /\ run <= MaxRuns
    /\ LET original_content == schema[1].content
           r == ProcessMethods(original_content, 0, 1)
           written == r.content # original_content
       IN  /\ schema' = IF written THEN <<ProtoFile(FALSE, r.content)>> ELSE schema
           /\ hist' = Append(hist, [call |-> "process_file", args |-> NoArgs,
                                    before |-> original_content,
                                    after |-> schema'[1].content,
                                    changes |-> IF written THEN r.changes ELSE 0,
                                    written |-> written])
    /\ run' = run + 1
    /\ UNCHANGED <<method_scopes, fi, file, fstate, start, spec, idx, pc>>

\* ProtoScopeExtractor(proto_dir) on the tree the writer left
ExtractAfter ==
    /\ pc = "complete"
    /\ pc' = "extract"
    /\ method_scopes' = <<>>
    /\ fi' = 0
    /\ UNCHANGED <<schema, file, fstate, start, spec, idx, run, hist>>

NextW ==
    \/ AddScopeCall
    \/ ProcessFile
    \/ ExtractAfter
    \/ ParseFile
    \/ ExtractReturn

SpecW == InitW /\ [][NextW]_vars

\* ---- claims about the writer
Calls == 1..Len(hist)

\* positions of the method declarations of a source, in order
MethodPositions(content) ==
    SelectSeq([i \in 1..Len(content) |-> i],
              LAMBDA i : content[i].t \in {"rpc", "rpcdecl"})

\* the declarations with a body of the method called method_name
Declared(content, method_name) ==
    {p \in MethodsAt(content) :
        content[p].t = "rpc" /\ content[p].v = <<method_name>>}

\* every method that carried an annotation before the call has the same body
\* after it
AnnotatedBodiesKept(before, after) ==
    LET mb == MethodPositions(before)
        ma == MethodPositions(after)
    IN  /\ Len(ma) = Len(mb)
        /\ \A j \in 1..Len(mb) :
              HasRequiredScope(BodyAt(before, mb[j]))
                  => BodyAt(after, ma[j]) = BodyAt(before, mb[j])

\* C29: add_scope_to_rpc returns the content unchanged when the bodies of the
\* declarations of the method already contain required_scope, leaves the body
\* of every annotated method as it was, and applied again to its own result
\* returns that result; process_file writes the file exactly when a method's
\* content changed, and otherwise leaves it as it was.
C29_IdempotentNoOverride ==
    \A k \in Calls :
        LET h == hist[k]
        IN  /\ AnnotatedBodiesKept(h.before, h.after)
            /\ h.call = "add_scope_to_rpc" =>
                  /\ (\A p \in Declared(h.before, h.args.name) :
                          HasRequiredScope(BodyAt(h.before, p)))
                        => h.after = h.before
                  /\ AddScopeToRpc(h.after, h.args.name, h.args.resource,
                                   h.args.level, h.args.oauth_scopes) = h.after
            /\ h.call = "process_file" =>
                  /\ h.written <=> h.changes > 0
                  /\ h.written <=> h.after # h.before

\* a call that inserts an annotation next to an annotated method, followed by
\* the same call, which changes nothing
C29_Witness ==
    \E k \in Calls :
        /\ k + 1 \in Calls
        /\ hist[k].call = "add_scope_to_rpc"
        /\ hist[k + 1].call = "add_scope_to_rpc"
        /\ hist[k + 1].args = hist[k].args
        /\ hist[k].after # hist[k].before
        /\ \E p \in MethodsAt(hist[k].before) :
              HasRequiredScope(BodyAt(hist[k].before, p))
        /\ hist[k + 1].before = hist[k].after
        /\ hist[k + 1].after = hist[k + 1].before

\* process_file writes the file, and run again it does not
C29_WitnessWritten ==
    \E k \in Calls :
        /\ k + 1 \in Calls
        /\ hist[k].call = "process_file"
        /\ hist[k + 1].call = "process_file"
        /\ hist[k].written
        /\ hist[k].changes = 2
        /\ ~hist[k + 1].written

\* a call for a method that is declared with an annotation: nothing changes
C29_WitnessAnnotated ==
    \E k \in Calls :
        /\ hist[k].call = "add_scope_to_rpc"
        /\ Declared(hist[k].before, hist[k].args.name) # {}
        /\ \A p \in Declared(hist[k].before, hist[k].args.name) :
              HasRequiredScope(BodyAt(hist[k].before, p))
        /\ \E p \in MethodsAt(hist[k].before) :
              ~HasRequiredScope(BodyAt(hist[k].before, p))
        /\ hist[k].after = hist[k].before

\* the method declared at p has its closing brace on a line of its own after
\* two spaces and no required_scope in its body
MultiLineUnannotated(content, p) ==
    /\ content[p].t = "rpc"
    /\ ClosingBrace(content, p + 1, 0) # 0
    /\ content[ClosingBrace(content, p + 1, 0)].t = "rpcend"
    /\ ~HasRequiredScope(BodyAt(content, p))

TableKeysOf(d) == {d[i].key : i \in 1..Len(d)}

\* the last call was add_scope_to_rpc for a method declared once, with a
\* multi-line body without annotation, and the extractor has read the result
RoundTripCase(p) ==
    /\ pc = "load"
    /\ hist # <<>>
    /\ LET h == hist[Len(hist)]
       IN  /\ h.call = "add_scope_to_rpc"
           /\ Declared(h.before, h.args.name) = {p}
           /\ MultiLineUnannotated(h.before, p)
           /\ h.after # h.before

RoundTripHolds(p) ==
    LET h == hist[Len(hist)]
        key == FullMethodName(PackageName(h.before), ServiceAt(h.before, p),
                              <<h.args.name>>)
        before_table == ParseProtoFile(<<>>, h.before)
    IN  /\ DictHas(method_scopes, key)
        /\ DictGet(method_scopes, key)
              = [resource |-> h.args.resource, level |-> h.args.level,
                 oauth_scopes |-> h.args.oauth_scopes]
        /\ \A k \in (TableKeysOf(before_table) \cup TableKeysOf(method_scopes))
                        \ {key} :
              /\ DictHas(before_table, k)
              /\ DictHas(method_scopes, k)
              /\ DictGet(method_scopes, k) = DictGet(before_table, k)

\* C30: after add_scope_to_rpc has inserted the annotation into a method with
\* a multi-line body and no required_scope, the extractor run on the result
\* holds for that method exactly the fact (resource, level, scopes) with the
\* scopes in the order given, and for every other method what it held before
\* the insertion.
C30_RoundTrip ==
    \A p \in 1..Len(schema[1].content) : RoundTripCase(p) => RoundTripHolds(p)

\* the same for sources in which every method closes after two spaces
C30_RoundTripTwoSpaceLayout ==
    \A p \in 1..Len(schema[1].content) :
        (RoundTripCase(p) /\ TwoSpaceLayout(hist[Len(hist)].before))
            => RoundTripHolds(p)

C30_WitnessTwoSpaceLayout ==
    \E p \in 1..Len(schema[1].content) :
        /\ RoundTripCase(p)
        /\ TwoSpaceLayout(hist[Len(hist)].before)
        /\ Len(hist[Len(hist)].args.oauth_scopes) = 2
        /\ Len(method_scopes) = 2

====
